---------------------------- MODULE Spec2Model ----------------------------
(***************************************************************************)
(* A model of arlcleaner: the CRS resolver, the bounding-box validator,    *)
(* the SID pipeline (process_sid), the TIFF pipeline (process_tiff), the   *)
(* quarantine step and the batch dispatcher (image_test.main).             *)
(*                                                                         *)
(* File names are strings built as the code builds them.  Codes are        *)
(* integers; 0 stands for Python's None or a falsy value.  The raster      *)
(* engine (gdalinfo, gdalwarp, gdal_translate, osgeo.gdal) is the          *)
(* environment: each call's outcome is drawn with \E.                      *)
(***************************************************************************)
EXTENDS Integers, Sequences, FiniteSets, TLC

VARIABLES
    cfg,        \* the config module's attributes the code reads
    fn,         \* the function that is run: "process_sid", "process_tiff", ...
    oracle,     \* run twice: the answers of a deterministic engine (<<>>: any answer)
    run,        \* run twice: 1 during the first call of the pipeline, 2 during the second
    first,      \* run twice: what the first call returned, left and asked of the engine
    wrote,      \* batch: the paths each concurrent run has written or removed
    plan,       \* batch: the file operations each concurrent run has still to make
    dirs,       \* dispatcher: the entries os.listdir gave for each input directory
    checked,    \* the raster whose bounding box was last given to _bbox_valid
    listed,     \* _move_to_failed: the directory entries still to visit
    copyFailed, \* _move_to_failed: the names whose copy raised, last pass
    ncopy,      \* _move_to_failed: how many times each name was copied
    ev,         \* the evidence the input raster presents to _extract_epsg
    path,       \* the path handed to the pipeline function
    pc,         \* position of the run
    epsg,       \* local epsg / src_epsg (0 = None)
    box,        \* the last bounding box given to _bbox_valid (<<>> = None)
    valid,      \* the last answer of _bbox_valid ("none" before any)
    fs,         \* the files that exist, by full path
    logs,       \* the error-log file of the input: the messages appended
    nquar,      \* how many times _move_to_failed ran
    calls,      \* the engine calls that wrote a raster, in order
    src,        \* process_sid's local src
    tmpFiles,   \* process_sid's local tmp_files
    size,       \* <<width, height>> of the validated raster
    tx, ty,     \* the tiling loop's x and y
    tiles,      \* the pixel windows issued, in order: <<xoff, yoff, w, h>>
    gi,         \* index of the guess candidate at hand
    guessed,    \* the candidates tried so far, in order
    ret,        \* the value returned (a sequence of paths)
    outcome,    \* "running", "returned", "raised"
    status,     \* dispatcher: the state of each enumerated file's run
    aux,        \* what _secondary_process finds: WKT, GCPs, a projection
    todo,       \* dispatcher: the files main has still to submit
    queue       \* dispatcher: the files submitted and not yet started

vars == <<cfg, fn, oracle, run, first, wrote, plan, dirs, checked, listed,
          copyFailed, ncopy, ev, path, pc, epsg, box, valid,
          fs, logs, nquar, calls, src, tmpFiles, size, tx, ty, tiles, gi,
          guessed, ret, outcome, status, aux, todo, queue>>

(***************************************************************************)
(* Bounds of the model.                                                    *)
(***************************************************************************)
MaxTile == 2        \* tile width and height range over 1..MaxTile
MaxSize == 4        \* raster width and height range over 0..MaxSize
Scale == 2          \* coordinates are counted in 1/Scale of a degree
MaxFiles == 3       \* files of a batch

(***************************************************************************)
(* Program constants.                                                      *)
(***************************************************************************)
None == 0
NonNumeric == -1
BadEpsg == 7019
EnvMinX == -170
EnvMaxX == -50
EnvMinY == 15
EnvMaxY == 75
MaxSpan == 1
SidQuality == 60
JpegQuality == 90
DefaultWorkers == 4

Max(a, b) == IF a >= b THEN a ELSE b
Min(a, b) == IF a <= b THEN a ELSE b

(***************************************************************************)
(* config.py.  The shipped module defines neither TARGET_EPSG nor          *)
(* BBOX_CHECK nor MAX_WORKERS; a deployment adds them.  TARGET_EPSG = None *)
(* stands for the attribute being absent (reading it raises                *)
(* AttributeError); BBOX_CHECK is read with getattr(..., True).            *)
(***************************************************************************)
TargetChoices == {None, 4269, 4326}

Configs ==
    [TARGET_EPSG : TargetChoices,
     BBOX_CHECK : BOOLEAN,
     JPEG_QUALITY : {JpegQuality},
     MAX_WORKERS : {None},
     SID_TILE_WIDTH : 1..MaxTile,
     SID_TILE_HEIGHT : 1..MaxTile]

(***************************************************************************)
(* _bbox_valid.  A box is <<minx, miny, maxx, maxy>> in 1/Scale degrees.   *)
(***************************************************************************)
BboxValidNoSpan(c, b) ==
    IF ~c.BBOX_CHECK THEN TRUE
    ELSE IF b[1] < EnvMinX * Scale \/ b[3] > EnvMaxX * Scale
            \/ b[2] < EnvMinY * Scale \/ b[4] > EnvMaxY * Scale THEN FALSE
    ELSE TRUE

BboxValid(c, b) ==
    IF ~c.BBOX_CHECK THEN TRUE
    ELSE IF b[1] < EnvMinX * Scale \/ b[3] > EnvMaxX * Scale
            \/ b[2] < EnvMinY * Scale \/ b[4] > EnvMaxY * Scale THEN FALSE
    ELSE IF (b[3] - b[1]) >= MaxSpan * Scale \/ (b[4] - b[2]) >= MaxSpan * Scale
         THEN FALSE
    ELSE TRUE

\* `not bbox or not _bbox_valid(bbox)`: None (<<>>) is rejected before the call
BboxAccepted(c, b) == b # <<>> /\ BboxValid(c, b)

(***************************************************************************)
(* _extract_epsg.  A text searched with the two regular expressions is     *)
(* modelled by what re.search finds in it: auth lists the codes of its     *)
(* AUTHORITY["EPSG","n"] matches in text order, colon those of its EPSG:n  *)
(* matches.  A WKT1 string names its spheroid's authority (7019 for GRS    *)
(* 1980) before the authority of the system itself.                        *)
(***************************************************************************)
NoText == [auth |-> <<>>, colon |-> <<>>]

ReSearchAuthority(t) == IF t.auth # <<>> THEN t.auth[1] ELSE None

\* re.search(AUTHORITY...) or re.search(EPSG:...)
ReSearchEither(t) ==
    IF t.auth # <<>> THEN t.auth[1]
    ELSE IF t.colon # <<>> THEN t.colon[1]
    ELSE None

\* lines 33-45: coordinateSystem.epsg, then coordinateSystem.wkt
FromMetadata(e) ==
    IF e.epsgField # None /\ e.epsgField # NonNumeric THEN e.epsgField
    ELSE ReSearchEither(e.wkt)

\* lines 47-62: gdal.Open, GetAuthorityCode per node, AutoIdentifyEPSG
FromNativeKeepBad(n) ==
    IF ~n.open THEN None
    ELSE IF n.projcs # None THEN n.projcs
    ELSE IF n.geogcs # None THEN n.geogcs
    ELSE IF n.root # None THEN n.root
    ELSE IF n.autoRaises THEN None
    ELSE n.auto

FromNative(n) ==
    IF ~n.open THEN None
    ELSE IF n.projcs # None /\ n.projcs # BadEpsg THEN n.projcs
    ELSE IF n.geogcs # None /\ n.geogcs # BadEpsg THEN n.geogcs
    ELSE IF n.root # None /\ n.root # BadEpsg THEN n.root
    ELSE IF n.autoRaises THEN None
    ELSE IF n.auto # None /\ n.auto # BadEpsg THEN n.auto
    ELSE None

\* lines 66-88, one sidecar: parse is "xml", "ParseError" or "error"
FromSidecar(s) ==
    IF ~s.exists THEN None
    ELSE IF s.parse = "xml" THEN
        IF s.wkid # None THEN s.wkid
        ELSE IF s.latest # None THEN s.latest
        ELSE ReSearchAuthority(s.text)
    ELSE IF s.parse = "ParseError" THEN ReSearchEither(s.text)
    ELSE None

RECURSIVE FromSidecars(_, _)
FromSidecars(ss, i) ==
    IF i > Len(ss) THEN None
    ELSE IF FromSidecar(ss[i]) # None THEN FromSidecar(ss[i])
    ELSE FromSidecars(ss, i + 1)

\* the resolver asking the sidecars before the native projection
ExtractEpsgSidecarsFirst(e) ==
    IF FromMetadata(e) # None THEN FromMetadata(e)
    ELSE IF FromSidecars(e.sidecars, 1) # None THEN FromSidecars(e.sidecars, 1)
    ELSE FromNative(e.native)

ExtractEpsg(e) ==
    IF FromMetadata(e) # None THEN FromMetadata(e)
    ELSE IF FromNative(e.native) # None THEN FromNative(e.native)
    ELSE FromSidecars(e.sidecars, 1)

\* the sources _extract_epsg reaches, in the order it reaches them: each
\* return statement ends the function, each source that gives nothing is
\* followed by the next
RECURSIVE SidecarsReached(_, _)
SidecarsReached(ss, i) ==
    IF i > Len(ss) THEN <<>>
    ELSE IF FromSidecar(ss[i]) # None THEN <<i>>
    ELSE <<i>> \o SidecarsReached(ss, i + 1)

Consulted(e) ==
    IF e.epsgField # None /\ e.epsgField # NonNumeric THEN <<"epsg">>
    ELSE IF ReSearchEither(e.wkt) # None THEN <<"epsg", "wkt">>
    ELSE IF FromNative(e.native) # None THEN <<"epsg", "wkt", "native">>
    ELSE <<"epsg", "wkt", "native">>
         \o [k \in 1..Len(SidecarsReached(e.sidecars, 1)) |->
                CASE SidecarsReached(e.sidecars, 1)[k] = 1 -> "stem.aux.xml"
                  [] SidecarsReached(e.sidecars, 1)[k] = 2 -> "stem.prj"
                  [] OTHER -> "path.aux.xml"]

\* _validate_epsg
ValidateEpsg(code) == code # BadEpsg

(***************************************************************************)
(* The evidence a raster can present.                                      *)
(***************************************************************************)
EpsgFields == {None, NonNumeric, BadEpsg, 4326}

WktTexts ==
    {NoText,
     [auth |-> <<BadEpsg, 4269>>, colon |-> <<>>],
     [auth |-> <<4326>>, colon |-> <<>>],
     [auth |-> <<>>, colon |-> <<3857>>]}

ClosedNative ==
    [open |-> FALSE, projcs |-> None, geogcs |-> None, root |-> None,
     autoRaises |-> FALSE, auto |-> None]

Natives ==
    {ClosedNative} \cup
    {n \in [open : {TRUE}, projcs : {None, BadEpsg, 26914},
            geogcs : {None, 4269}, root : {None, BadEpsg},
            autoRaises : BOOLEAN, auto : {None, BadEpsg, 4326}] :
        n.autoRaises => n.auto = None}

NoSidecar ==
    [exists |-> FALSE, parse |-> "xml", wkid |-> None, latest |-> None,
     text |-> NoText]

SidecarFiles ==
    {NoSidecar,
     [NoSidecar EXCEPT !.exists = TRUE, !.wkid = BadEpsg],
     [NoSidecar EXCEPT !.exists = TRUE, !.latest = 4326],
     [NoSidecar EXCEPT !.exists = TRUE,
                       !.text = [auth |-> <<BadEpsg, 4269>>, colon |-> <<3857>>]],
     [NoSidecar EXCEPT !.exists = TRUE, !.parse = "ParseError",
                       !.text = [auth |-> <<>>, colon |-> <<3857>>]],
     [NoSidecar EXCEPT !.exists = TRUE, !.parse = "error", !.wkid = 4326]}

Evidence ==
    [epsgField : EpsgFields, wkt : WktTexts, native : Natives,
     sidecars : [1..3 -> SidecarFiles]]

NoEvidence ==
    [epsgField |-> None, wkt |-> NoText, native |-> ClosedNative,
     sidecars |-> [i \in 1..3 |-> NoSidecar]]

(***************************************************************************)
(* What every specification starts from: one input, nothing written yet.   *)
(***************************************************************************)
Fresh ==
    /\ queue = <<>>
    /\ run = 1
    /\ first = <<>>
    /\ wrote = <<>>
    /\ plan = <<>>
    /\ checked = ""
    /\ epsg = None
    /\ box = <<>>
    /\ valid = "none"
    /\ logs = <<>>
    /\ nquar = 0
    /\ listed = {}
    /\ copyFailed = {}
    /\ ncopy = <<>>
    /\ calls = <<>>
    /\ src = ""
    /\ tmpFiles = <<>>
    /\ size = <<0, 0>>
    /\ tx = 0
    /\ ty = 0
    /\ tiles = <<>>
    /\ gi = 0
    /\ guessed = <<>>
    /\ ret = <<>>
    /\ outcome = "running"

NoAux == [wkt |-> FALSE, gcps |-> FALSE, projection |-> FALSE]

PlainConfigs ==
    {c \in Configs : c.TARGET_EPSG = 4269 /\ c.SID_TILE_WIDTH = 1
                      /\ c.SID_TILE_HEIGHT = 1}

(***************************************************************************)
(* The CRS resolver on its own: every evidence combination, one call.      *)
(***************************************************************************)
InitResolver ==
    /\ Fresh
    /\ cfg \in {c \in PlainConfigs : c.BBOX_CHECK}
    /\ ev \in Evidence
    /\ path = "in/a.sid"
    /\ fn = "_extract_epsg"
    /\ fs = {}
    /\ status = <<>>
    /\ todo = <<>>
    /\ dirs = <<>>
    /\ oracle = <<>>
    /\ aux = NoAux
    /\ pc = "resolve"

Resolve ==
    /\ pc = "resolve"
    /\ epsg' = ExtractEpsg(ev)
    /\ pc' = "resolved"
    /\ UNCHANGED <<cfg, fn, oracle, run, first, wrote, plan, dirs, checked,
                   listed,
                   ev, path, box, valid, fs, logs, nquar,
                   copyFailed, ncopy, calls, src,
                   tmpFiles, size, tx, ty, tiles, gi, guessed, ret, outcome,
                   status, aux,
                   todo, queue>>

NextResolver == Resolve

SpecResolver == InitResolver /\ [][NextResolver]_vars

(***************************************************************************)
(* The bounding-box validator on its own.  Boxes come from                 *)
(* _bbox_from_info, which returns min <= max on both axes.                 *)
(***************************************************************************)
XS ==
    {EnvMinX * Scale - 1, EnvMinX * Scale, EnvMinX * Scale + 1,
     EnvMinX * Scale + Scale, EnvMaxX * Scale - Scale, EnvMaxX * Scale - 1,
     EnvMaxX * Scale, EnvMaxX * Scale + 1}

YS ==
    {EnvMinY * Scale - 1, EnvMinY * Scale, EnvMinY * Scale + 1,
     EnvMinY * Scale + Scale, EnvMaxY * Scale - Scale, EnvMaxY * Scale - 1,
     EnvMaxY * Scale, EnvMaxY * Scale + 1}

Boxes ==
    {b \in XS \X YS \X XS \X YS : b[1] <= b[3] /\ b[2] <= b[4]}

InitBBox ==
    /\ Fresh
    /\ cfg \in PlainConfigs
    /\ ev = NoEvidence
    /\ path = "in/a.sid"
    /\ fn = "_bbox_valid"
    /\ fs = {}
    /\ status = <<>>
    /\ todo = <<>>
    /\ dirs = <<>>
    /\ oracle = <<>>
    /\ aux = NoAux
    /\ pc = "validate"

Validate ==
    /\ pc = "validate"
    /\ \E b \in Boxes :
        /\ box' = b
        /\ valid' = IF BboxValid(cfg, b) THEN "valid" ELSE "invalid"
    /\ pc' = "validated"
    /\ UNCHANGED <<cfg, fn, oracle, run, first, wrote, plan, dirs, checked,
                   listed,
                   ev, path, epsg, fs, logs, nquar,
                   copyFailed, ncopy, calls, src,
                   tmpFiles, size, tx, ty, tiles, gi, guessed, ret, outcome,
                   status, aux,
                   todo, queue>>

NextBBox == Validate

SpecBBox == InitBBox /\ [][NextBBox]_vars

(***************************************************************************)
(* C1: the CRS resolver never returns the geocentric code 7019, whatever   *)
(* the evidence: a source yielding 7019 is passed over.                    *)
(***************************************************************************)
C1_NeverReturnsBadEpsg == pc = "resolved" => epsg # BadEpsg

(***************************************************************************)
(* C2: _bbox_valid answers valid exactly when checking is disabled, or the *)
(* box lies inside the envelope [-170, -50] x [15, 75] with both spans     *)
(* strictly below 1 degree.                                                *)
(***************************************************************************)
InsideEnvelope(b) ==
    /\ b[1] >= -170 * Scale
    /\ b[3] <= -50 * Scale
    /\ b[2] >= 15 * Scale
    /\ b[4] <= 75 * Scale

SpansBelowMax(b) == b[3] - b[1] < Scale /\ b[4] - b[2] < Scale

C2_BboxValidIff ==
    pc = "validated" =>
        (valid = "valid" <=>
            (~cfg.BBOX_CHECK \/ (InsideEnvelope(box) /\ SpansBelowMax(box))))

C2_Witness ==
    /\ pc = "validated"
    /\ cfg.BBOX_CHECK
    /\ valid = "valid"
    /\ box[3] > box[1]
    /\ box[4] > box[2]

(***************************************************************************)
(* Paths: os.path and str methods, on strings.                             *)
(***************************************************************************)
LastIndex(s, ch) ==
    LET I == {i \in 1..Len(s) : SubSeq(s, i, i) = ch}
    IN IF I = {} THEN 0 ELSE CHOOSE i \in I : \A j \in I : j <= i

Dirname(p) ==
    IF LastIndex(p, "/") = 0 THEN "" ELSE SubSeq(p, 1, LastIndex(p, "/") - 1)

Basename(p) == SubSeq(p, LastIndex(p, "/") + 1, Len(p))

Join(d, n) == d \o "/" \o n

\* os.path.splitext(p)[0]: cut at the last dot of the last component, unless
\* that dot leads the component
SplitextRoot(p) ==
    IF LastIndex(p, ".") > LastIndex(p, "/") + 1
    THEN SubSeq(p, 1, LastIndex(p, ".") - 1)
    ELSE p

StartsWith(s, pre) == Len(pre) <= Len(s) /\ SubSeq(s, 1, Len(pre)) = pre

EndsWith(s, suf) ==
    Len(suf) <= Len(s) /\ SubSeq(s, Len(s) - Len(suf) + 1, Len(s)) = suf

LowerChar(c) ==
    CASE c = "S" -> "s" [] c = "I" -> "i" [] c = "D" -> "d"
      [] c = "T" -> "t" [] c = "F" -> "f" [] c = "A" -> "a"
      [] OTHER -> c

RECURSIVE Lower(_)
Lower(s) ==
    IF Len(s) = 0 THEN ""
    ELSE LowerChar(SubSeq(s, 1, 1)) \o Lower(SubSeq(s, 2, Len(s)))

\* base = os.path.splitext(os.path.basename(path))[0]
BaseOf(p) == SplitextRoot(Basename(p))

OutputDir == "out"
FailedProcessing == "failed"
TmpDir == "tmp"

\* the sidecars _extract_epsg looks for, in its order
SidecarPaths(p) ==
    <<SplitextRoot(p) \o ".aux.xml", SplitextRoot(p) \o ".prj", p \o ".aux.xml">>

InputFiles(p, e) ==
    {p} \cup {SidecarPaths(p)[i] : i \in {j \in 1..3 : e.sidecars[j].exists}}

(***************************************************************************)
(* _log_error and _move_to_failed, and the except/finally of process_sid.  *)
(***************************************************************************)
\* the names _move_to_failed copies: those of the input's directory that
\* start with its base name
Matching(f, p) ==
    {Basename(q) : q \in {r \in f : Dirname(r) = Dirname(p)
                                   /\ StartsWith(Basename(r), BaseOf(p))}}

RemoveFiles(f, names) == f \ {names[i] : i \in 1..Len(names)}

ErrorLogs == "ErrorLogs"

\* log_path = os.path.join(config.ERROR_LOGS, base + ".log")
LogPath(p) == Join(ErrorLogs, BaseOf(p) \o ".log")

\* the log opened with mode "w"
Overwritten(log, msg) == <<msg>>

\* lines 121-122: open(log_path, "a") and write(message + "\n")
Appended(log, msg) == Append(log, msg)

\* the file moved instead of copied
AfterMove(f, p, n) ==
    (f \ {Join(Dirname(p), n)}) \cup {Join(FailedProcessing, n)}

\* lines 133-134: shutil.copy2(directory/name, FAILED_PROCESSING/name)
AfterCopy(f, p, n) == f \cup {Join(FailedProcessing, n)}

\* the copy loop giving up at the first copy that fails
CopyOutcomesStopAtFailure(f, p) ==
    {o \in [copied : SUBSET Matching(f, p), failed : SUBSET Matching(f, p)] :
        \/ Cardinality(o.failed) = 1 /\ o.copied \cap o.failed = {}
        \/ o.failed = {} /\ o.copied = Matching(f, p)}

\* the loop of _move_to_failed: every matching name is tried, each copy2
\* succeeds or raises, and a raise is swallowed
CopyOutcomes(f, p) ==
    {[copied |-> c, failed |-> Matching(f, p) \ c] :
        c \in SUBSET Matching(f, p)}

\* the copy counts after one more copy of each name of c
Counted(nc, c) ==
    [n \in DOMAIN nc \cup c |->
        (IF n \in DOMAIN nc THEN nc[n] ELSE 0) + (IF n \in c THEN 1 ELSE 0)]

\* what one pass of _log_error and _move_to_failed leaves in the file system
Quarantined(f, p, copied) ==
    f \cup {ErrorLogs, LogPath(p), FailedProcessing}
      \cup {Join(FailedProcessing, n) : n \in copied}

\* _log_error(base, msg); _move_to_failed(path); f is the file system the
\* handler finds
Quarantine(msg, f) ==
    \E o \in CopyOutcomes(f, path) :
        /\ logs' = Appended(logs, msg)
        /\ nquar' = nquar + 1
        /\ copyFailed' = o.failed
        /\ ncopy' = Counted(ncopy, o.copied)
        /\ fs' = Quarantined(f, path, o.copied)

\* the except clause returning [] with nothing logged and nothing copied
SidFailUnreported(msg, f) ==
    /\ fs' = RemoveFiles(f, tmpFiles)
    /\ ret' = <<>>
    /\ outcome' = "returned"
    /\ pc' = "done"
    /\ UNCHANGED <<logs, nquar, copyFailed, ncopy>>

\* except Exception: quarantine, return []; finally: remove tmp_files
SidFail(msg, f) ==
    /\ \E o \in CopyOutcomes(f, path) :
        /\ logs' = Appended(logs, msg)
        /\ nquar' = nquar + 1
        /\ copyFailed' = o.failed
        /\ ncopy' = Counted(ncopy, o.copied)
        /\ fs' = RemoveFiles(Quarantined(f, path, o.copied), tmpFiles)
    /\ ret' = <<>>
    /\ outcome' = "returned"
    /\ pc' = "done"

\* return paths; finally: remove tmp_files
SidReturn(paths, f) ==
    /\ fs' = RemoveFiles(f, tmpFiles)
    /\ ret' = paths
    /\ outcome' = "returned"
    /\ pc' = "done"
    /\ UNCHANGED <<logs, nquar, copyFailed, ncopy>>

(***************************************************************************)
(* The engine's answers.                                                   *)
(***************************************************************************)
GoodBox == <<-100 * Scale, 40 * Scale, -100 * Scale + 1, 40 * Scale + 1>>
FarBox == <<0, 0, 1, 1>>
WideBox == <<-100 * Scale, 40 * Scale, -98 * Scale, 41 * Scale>>

\* _bbox_from_info of a gdalinfo answer: None when it has no corners
InfoBoxes == {<<>>, GoodBox, FarBox, WideBox}

\* a failed engine call leaves its output absent or partly written
Written(f, dst, ok, partial) == IF ok \/ partial THEN f \cup {dst} ELSE f

\* the pipeline reprojecting whatever the resolved code is
NeedsWarpAlways(e) == TRUE

\* `epsg != config.TARGET_EPSG` (process_sid), `src_epsg == config.TARGET_EPSG`
\* negated (_primary_process)
NeedsWarp(e) == e # cfg.TARGET_EPSG

WarpCall(s, d, srcEpsg) ==
    [op |-> "warp", src |-> s, dst |-> d, s_srs |-> srcEpsg,
     t_srs |-> cfg.TARGET_EPSG, quality |-> 0, win |-> <<>>]

TranslateCall(s, d, q, w) ==
    [op |-> "translate", src |-> s, dst |-> d, s_srs |-> None,
     t_srs |-> None, quality |-> q, win |-> w]

\* The engine call at hand, named by the position of the run; the guess
\* loop's later candidates and the tiling loop's later tiles are calls of
\* their own.
Site ==
    IF pc = "guessInfo" /\ gi > 1 THEN "guessInfoNext"
    ELSE IF pc = "tile" /\ (tx > 0 \/ ty > 0) THEN "tileNext"
    ELSE pc

\* What the environment may answer to the call at hand.  With no oracle
\* every answer is possible; a deterministic engine (oracle) answers a
\* call the same way each time it is made.
EngineOk == IF oracle = <<>> THEN BOOLEAN ELSE {oracle.fail # Site}

EnginePartial == IF oracle = <<>> THEN BOOLEAN ELSE {oracle.partial}

\* a call of the gdal bindings: done, raising, or returning None
EngineAnswers == {"ok", "raise", "silent"}

EngineResult ==
    IF oracle = <<>> THEN EngineAnswers
    ELSE {IF oracle.fail = Site THEN oracle.how ELSE "ok"}

EngineBox ==
    IF oracle = <<>> THEN InfoBoxes
    ELSE {IF Site \in oracle.rejected THEN FarBox ELSE GoodBox}

EngineWidth == IF oracle = <<>> THEN 0..MaxSize ELSE {oracle.size[1]}

EngineHeight == IF oracle = <<>> THEN 0..MaxSize ELSE {oracle.size[2]}

\* shutil.copy2 of _ensure_worldfile; the .aux.xml beside the primary JPEG
EngineCopied == IF oracle = <<>> THEN BOOLEAN ELSE {oracle.partial}

EngineAux == IF oracle = <<>> THEN BOOLEAN ELSE {oracle.partial}

(***************************************************************************)
(* process_sid, one action per engine call.                                *)
(***************************************************************************)
\* math.ceil(width / tile)
CeilDivFloor(a, b) == a \div b

CeilDiv(a, b) == (a + b - 1) \div b

\* candidates of _guess_epsg_and_warp
GuessCandidates == <<4269, 4326, 3857>> \o [z \in 1..10 |-> 32600 + 9 + z]

GuessTmp(cand) ==
    Join(TmpDir, BaseOf(path) \o "_guess_" \o ToString(cand) \o ".tif")

DirectJpg == Join(OutputDir, BaseOf(path) \o ".jpg")

WarpTmp == Join(OutputDir, BaseOf(path) \o "_warp.tif")

\* the tile named by its row, then its column
TileJpgRowFirst(x, y) ==
    Join(OutputDir, BaseOf(path) \o "_" \o ToString(y + 1) \o "_"
                    \o ToString(x + 1) \o ".jpg")

TileJpg(x, y) ==
    Join(OutputDir, BaseOf(path) \o "_" \o ToString(x + 1) \o "_"
                    \o ToString(y + 1) \o ".jpg")

\* lines 201-217: the extension check, gdalinfo on the input, the resolver
SidBegin ==
    /\ pc = "start"
    /\ IF ~EndsWith(Lower(path), ".sid")
       THEN /\ outcome' = "raised"
            /\ pc' = "done"
            /\ UNCHANGED <<epsg, src, fs, logs, nquar, copyFailed, ncopy, ret>>
       ELSE \E ok \in EngineOk :
            IF ~ok
            THEN /\ Quarantine("gdalinfo failed", fs)
                 /\ ret' = <<>>
                 /\ outcome' = "returned"
                 /\ pc' = "done"
                 /\ UNCHANGED <<epsg, src>>
            ELSE /\ epsg' = IF ExtractEpsg(ev) # None
                               /\ ~ValidateEpsg(ExtractEpsg(ev))
                            THEN None ELSE ExtractEpsg(ev)
                 /\ src' = path
                 /\ pc' = IF epsg' = None THEN "direct" ELSE "warp"
                 /\ UNCHANGED <<fs, logs, nquar,
                                copyFailed, ncopy, ret, outcome>>
    /\ UNCHANGED <<cfg, fn, oracle, run, first, wrote, plan, dirs, checked,
                   listed,
                   ev, path, box, valid, calls, tmpFiles, size, tx, ty,
                   tiles, gi, guessed, status, aux,
                   todo, queue>>

\* line 220: _convert_to_jpeg(src, output_dir, dst_name=base, quality=60)
SidDirect ==
    /\ pc = "direct"
    /\ calls' = Append(calls, TranslateCall(src, DirectJpg, SidQuality, <<>>))
    /\ \E ok \in EngineOk, partial \in EnginePartial :
        IF ok
        THEN /\ fs' = fs \cup {DirectJpg}
             /\ pc' = "directInfo"
             /\ UNCHANGED <<logs, nquar, copyFailed, ncopy, ret, outcome>>
        ELSE SidFail("gdal_translate failed", Written(fs, DirectJpg, ok, partial))
    /\ UNCHANGED <<cfg, fn, oracle, run, first, wrote, plan, dirs, checked,
                   listed,
                   ev, path, epsg, box, valid, src, tmpFiles, size, tx,
                   ty, tiles, gi, guessed, status, aux,
                   todo, queue>>

\* lines 221-231: gdalinfo on the JPEG, its bbox, then return or mkdtemp
SidDirectInfo ==
    /\ pc = "directInfo"
    /\ \E ok \in EngineOk, b \in EngineBox :
        IF ~ok
        THEN /\ SidFail("gdalinfo failed", fs)
             /\ UNCHANGED <<checked, box, valid, gi>>
        ELSE /\ box' = b
             /\ checked' = DirectJpg
             /\ valid' = IF BboxAccepted(cfg, b) THEN "valid" ELSE "invalid"
             /\ IF BboxAccepted(cfg, b)
                THEN /\ SidReturn(<<DirectJpg>>, fs)
                     /\ UNCHANGED gi
                ELSE /\ fs' = fs \cup {TmpDir}
                     /\ gi' = 1
                     /\ pc' = "guess"
                     /\ UNCHANGED <<logs, nquar,
                                    copyFailed, ncopy, ret, outcome>>
    /\ UNCHANGED <<cfg, fn, oracle, run, first, wrote, plan, dirs, listed,
                   ev, path, epsg, calls, src, tmpFiles, size, tx, ty,
                   tiles, guessed, status, aux,
                   todo, queue>>

\* the rejected candidate's raster left where it is
NotUnlinked(f, q) == f

\* lines 162-165: os.remove(tmp), a FileNotFoundError passed over
Unlinked(f, q) == f \ {q}

\* GuessNext with the exhausted loop returning [] without line 229's raise
GuessNextSilent(f) ==
    IF gi < Len(GuessCandidates)
    THEN /\ fs' = f
         /\ gi' = gi + 1
         /\ pc' = "guess"
         /\ UNCHANGED <<logs, nquar, copyFailed, ncopy, ret, outcome>>
    ELSE /\ SidReturn(<<>>, {q \in f : q # TmpDir /\ Dirname(q) # TmpDir})
         /\ UNCHANGED gi

\* the loop of _guess_epsg_and_warp moves on: the next candidate, or rmtree,
\* return None and line 229's RuntimeError; f has the candidate's tmp removed
GuessNext(f) ==
    IF gi < Len(GuessCandidates)
    THEN /\ fs' = f
         /\ gi' = gi + 1
         /\ pc' = "guess"
         /\ UNCHANGED <<logs, nquar, copyFailed, ncopy, ret, outcome>>
    ELSE /\ SidFail("could not determine EPSG for SID",
                    {q \in f : q # TmpDir /\ Dirname(q) # TmpDir})
         /\ UNCHANGED gi

\* lines 153-155: _warp_to_target(src, tmp, cand)
SidGuessWarp ==
    /\ pc = "guess"
    /\ guessed' = Append(guessed, GuessCandidates[gi])
    /\ IF cfg.TARGET_EPSG = None
       THEN \* AttributeError before gdalwarp is run; caught at line 160
            /\ GuessNext(fs)
            /\ UNCHANGED calls
       ELSE /\ calls' = Append(calls, WarpCall(src, GuessTmp(GuessCandidates[gi]),
                                                GuessCandidates[gi]))
            /\ \E ok \in EngineOk, partial \in EnginePartial :
                IF ok
                THEN /\ fs' = fs \cup {GuessTmp(GuessCandidates[gi])}
                     /\ pc' = "guessInfo"
                     /\ UNCHANGED <<gi, logs, nquar,
                                    copyFailed, ncopy, ret, outcome>>
                ELSE GuessNext(Unlinked(
                         Written(fs, GuessTmp(GuessCandidates[gi]), ok, partial),
                         GuessTmp(GuessCandidates[gi])))
    /\ UNCHANGED <<cfg, fn, oracle, run, first, wrote, plan, dirs, checked,
                   listed,
                   ev, path, epsg, box, valid, src, tmpFiles, size, tx,
                   ty, tiles, status, aux,
                   todo, queue>>

\* lines 156-165: gdalinfo on the candidate, its bbox, return tmp or remove it
SidGuessInfo ==
    /\ pc = "guessInfo"
    /\ \E ok \in EngineOk, b \in EngineBox :
        IF ~ok
        THEN /\ GuessNext(Unlinked(fs, GuessTmp(GuessCandidates[gi])))
             /\ UNCHANGED <<checked, box, valid>>
        ELSE /\ box' = b
             /\ checked' = GuessTmp(GuessCandidates[gi])
             /\ valid' = IF BboxAccepted(cfg, b) THEN "valid" ELSE "invalid"
             /\ IF BboxAccepted(cfg, b)
                THEN /\ pc' = "guessConvert"
                     /\ UNCHANGED <<fs, gi, logs, nquar,
                                    copyFailed, ncopy, ret, outcome>>
                ELSE GuessNext(Unlinked(fs, GuessTmp(GuessCandidates[gi])))
    /\ UNCHANGED <<cfg, fn, oracle, run, first, wrote, plan, dirs, listed,
                   ev, path, epsg, calls, src, tmpFiles, size, tx, ty,
                   tiles, guessed, status, aux,
                   todo, queue>>

\* lines 226-228: _convert_to_jpeg(guessed, output_dir, dst_name=base, ...)
SidGuessConvert ==
    /\ pc = "guessConvert"
    /\ calls' = Append(calls, TranslateCall(GuessTmp(GuessCandidates[gi]),
                                            DirectJpg, SidQuality, <<>>))
    /\ \E ok \in EngineOk, partial \in EnginePartial :
        IF ok
        THEN SidReturn(<<DirectJpg>>, fs \cup {DirectJpg})
        ELSE SidFail("gdal_translate failed", Written(fs, DirectJpg, ok, partial))
    /\ UNCHANGED <<cfg, fn, oracle, run, first, wrote, plan, dirs, checked,
                   listed,
                   ev, path, epsg, box, valid, src, tmpFiles, size, tx,
                   ty, tiles, gi, guessed, status, aux,
                   todo, queue>>

\* lines 233-237: config.TARGET_EPSG is read; gdalwarp unless epsg equals it
SidWarp ==
    /\ pc = "warp"
    /\ IF cfg.TARGET_EPSG = None
       THEN /\ SidFail("AttributeError", fs)
            /\ UNCHANGED <<calls, src, tmpFiles>>
       ELSE IF ~NeedsWarp(epsg)
       THEN /\ pc' = "validate"
            /\ UNCHANGED <<calls, src, tmpFiles, fs, logs, nquar,
                           copyFailed, ncopy, ret, outcome>>
       ELSE /\ calls' = Append(calls, WarpCall(src, WarpTmp, epsg))
            /\ \E ok \in EngineOk, partial \in EnginePartial :
                IF ok
                THEN /\ fs' = fs \cup {WarpTmp}
                     /\ src' = WarpTmp
                     /\ tmpFiles' = Append(tmpFiles, WarpTmp)
                     /\ pc' = "validate"
                     /\ UNCHANGED <<logs, nquar,
                                    copyFailed, ncopy, ret, outcome>>
                ELSE /\ SidFail("gdalwarp failed",
                                Written(fs, WarpTmp, ok, partial))
                     /\ UNCHANGED <<src, tmpFiles>>
    /\ UNCHANGED <<cfg, fn, oracle, run, first, wrote, plan, dirs, checked,
                   listed,
                   ev, path, epsg, box, valid, size, tx, ty, tiles, gi,
                   guessed, status, aux,
                   todo, queue>>

\* process_sid without the check of lines 240-241
InvalidAfterWarpIgnored(f, w, h) ==
    /\ w > 0 /\ h > 0
    /\ size' = <<w, h>>
    /\ pc' = "tile"
    /\ fs' = f
    /\ UNCHANGED <<logs, nquar, copyFailed, ncopy, ret, outcome>>

\* lines 240-241: raise RuntimeError(f"invalid bbox after warp: {bbox}")
InvalidAfterWarp(f, w, h) ==
    /\ SidFail("invalid bbox after warp", f)
    /\ UNCHANGED size

\* the size check looking at the width only
SizeMissingWidthOnly(w, h) == w = 0

\* line 244: `if not width or not height`
SizeMissing(w, h) == w = 0 \/ h = 0

\* the list of tiles kept from one call to the next
TilesListKept(old) == old

\* line 248: `tiles: List[str] = []`
TilesList(old) == <<>>

\* lines 238-251: gdalinfo on src, its bbox and size
SidValidate ==
    /\ pc = "validate"
    /\ \E ok \in EngineOk, b \in EngineBox, w \in EngineWidth,
       h \in EngineHeight :
        IF ~ok
        THEN /\ SidFail("gdalinfo failed", fs)
             /\ UNCHANGED <<checked, box, valid, size>>
        ELSE /\ box' = b
             /\ checked' = src
             /\ valid' = IF BboxAccepted(cfg, b) THEN "valid" ELSE "invalid"
             /\ IF ~BboxAccepted(cfg, b)
                THEN InvalidAfterWarp(fs, w, h)
                ELSE /\ size' = <<w, h>>
                     /\ IF SizeMissing(w, h)
                        THEN SidFail("missing raster size", fs)
                        ELSE /\ pc' = "tile"
                             /\ ret' = TilesList(ret)
                             /\ UNCHANGED <<fs, logs, nquar, copyFailed, ncopy,
                                            outcome>>
    /\ UNCHANGED <<cfg, fn, oracle, run, first, wrote, plan, dirs, listed,
                   ev, path, epsg, calls, src, tmpFiles, tx, ty, tiles,
                   gi, guessed, status, aux,
                   todo, queue>>

Nx == CeilDiv(size[1], cfg.SID_TILE_WIDTH)
Ny == CeilDiv(size[2], cfg.SID_TILE_HEIGHT)

\* lines 254-257: the window of tile (x, y)
TileWindow(x, y) ==
    <<x * cfg.SID_TILE_WIDTH,
      y * cfg.SID_TILE_HEIGHT,
      Min(cfg.SID_TILE_WIDTH, size[1] - x * cfg.SID_TILE_WIDTH),
      Min(cfg.SID_TILE_HEIGHT, size[2] - y * cfg.SID_TILE_HEIGHT)>>

\* lines 252-278: one pass of the inner loop; after the last, return tiles
SidTile ==
    /\ pc = "tile"
    /\ calls' = Append(calls, TranslateCall(src, TileJpg(tx, ty), SidQuality,
                                            TileWindow(tx, ty)))
    /\ \E ok \in EngineOk, partial \in EnginePartial :
        IF ~ok
        THEN /\ SidFail("gdal_translate failed",
                        Written(fs, TileJpg(tx, ty), ok, partial))
             /\ UNCHANGED <<tiles, tx, ty>>
        ELSE /\ tiles' = Append(tiles, TileWindow(tx, ty))
             /\ IF tx + 1 < Nx
                THEN /\ tx' = tx + 1
                     /\ ty' = ty
                     /\ fs' = fs \cup {TileJpg(tx, ty)}
                     /\ ret' = Append(ret, TileJpg(tx, ty))
                     /\ UNCHANGED <<pc, logs, nquar,
                                    copyFailed, ncopy, outcome>>
                ELSE IF ty + 1 < Ny
                THEN /\ tx' = 0
                     /\ ty' = ty + 1
                     /\ fs' = fs \cup {TileJpg(tx, ty)}
                     /\ ret' = Append(ret, TileJpg(tx, ty))
                     /\ UNCHANGED <<pc, logs, nquar,
                                    copyFailed, ncopy, outcome>>
                ELSE /\ SidReturn(Append(ret, TileJpg(tx, ty)),
                                  fs \cup {TileJpg(tx, ty)})
                     /\ UNCHANGED <<tx, ty>>
    /\ UNCHANGED <<cfg, fn, oracle, run, first, wrote, plan, dirs, checked,
                   listed,
                   ev, path, epsg, box, valid, src, tmpFiles, size, gi,
                   guessed, status, aux,
                   todo, queue>>

(***************************************************************************)
(* One run of process_sid on one input.                                    *)
(***************************************************************************)
SidPaths == {"in/a.sid", "in/a.SID", "in/a.txt"}

\* the evidence the pipeline runs are checked on
PipelineEvidence ==
    {NoEvidence,
     [NoEvidence EXCEPT !.epsgField = BadEpsg],
     [NoEvidence EXCEPT !.epsgField = 4269],
     [NoEvidence EXCEPT !.epsgField = 4326],
     [NoEvidence EXCEPT !.wkt = [auth |-> <<BadEpsg, 4269>>, colon |-> <<>>]],
     [NoEvidence EXCEPT !.sidecars[2] =
         [NoSidecar EXCEPT !.exists = TRUE, !.parse = "ParseError",
                           !.text = [auth |-> <<>>, colon |-> <<3857>>]]]}

\* another input of the same directory whose name starts with "a"
Sibling == "in/ab.sid"

\* the tile size is read by the tiling loop only: it is varied on the runs
\* that can reach the loop, for one input name and one target
SidInputs ==
    {i \in [cfg : Configs, ev : PipelineEvidence, path : SidPaths] :
        (i.cfg.SID_TILE_WIDTH # 1 \/ i.cfg.SID_TILE_HEIGHT # 1) =>
            /\ i.cfg.BBOX_CHECK
            /\ i.cfg.TARGET_EPSG = 4269
            /\ i.path = "in/a.sid"
            /\ ExtractEpsg(i.ev) \in {4269, 4326}}

InitSid ==
    /\ Fresh
    /\ \E i \in SidInputs : cfg = i.cfg /\ ev = i.ev /\ path = i.path
    /\ fn = "process_sid"
    /\ fs = InputFiles(path, ev) \cup {Sibling}
    /\ status = <<>>
    /\ todo = <<>>
    /\ dirs = <<>>
    /\ oracle = <<>>
    /\ aux = NoAux
    /\ pc = "start"

NextSid ==
    \/ SidBegin
    \/ SidDirect
    \/ SidDirectInfo
    \/ SidGuessWarp
    \/ SidGuessInfo
    \/ SidGuessConvert
    \/ SidWarp
    \/ SidValidate
    \/ SidTile

SpecSid == InitSid /\ [][NextSid]_vars

(***************************************************************************)
(* C3: a completed tiling loop has issued exactly ceil(W/Tw) * ceil(H/Th)  *)
(* conversions; their windows cover every pixel of the W x H raster once   *)
(* and nothing outside it; tiles off the last column are Tw wide and off   *)
(* the last row Th high; the last column is W mod Tw wide (Tw when that is *)
(* 0) and the last row H mod Th high (Th when that is 0).                  *)
(***************************************************************************)
Ceiling(a, b) == CHOOSE n \in 0..a : n * b >= a /\ (n - 1) * b < a

InWindow(px, py, t) ==
    t[1] <= px /\ px < t[1] + t[3] /\ t[2] <= py /\ py < t[2] + t[4]

Remainder(a, b) == IF a % b = 0 THEN b ELSE a % b

TilingDone == pc = "done" /\ outcome = "returned" /\ tiles # <<>> /\ ret # <<>>

C3_TilesPartitionRaster ==
    TilingDone =>
        LET W == size[1]
            H == size[2]
            Tw == cfg.SID_TILE_WIDTH
            Th == cfg.SID_TILE_HEIGHT
        IN /\ Len(tiles) = Ceiling(W, Tw) * Ceiling(H, Th)
           /\ Len(ret) = Len(tiles)
           /\ \A px \in 0..(W - 1), py \in 0..(H - 1) :
                Cardinality({i \in 1..Len(tiles) : InWindow(px, py, tiles[i])}) = 1
           /\ \A i \in 1..Len(tiles) :
                /\ tiles[i][1] >= 0 /\ tiles[i][2] >= 0
                /\ tiles[i][3] >= 1 /\ tiles[i][4] >= 1
                /\ tiles[i][1] + tiles[i][3] <= W
                /\ tiles[i][2] + tiles[i][4] <= H
                /\ tiles[i][3] = IF tiles[i][1] + tiles[i][3] = W
                                 THEN Remainder(W, Tw) ELSE Tw
                /\ tiles[i][4] = IF tiles[i][2] + tiles[i][4] = H
                                 THEN Remainder(H, Th) ELSE Th

C3_Witness ==
    /\ TilingDone
    /\ size = <<3, 3>>
    /\ cfg.SID_TILE_WIDTH = 2
    /\ cfg.SID_TILE_HEIGHT = 2
    /\ Len(tiles) = 4
    /\ tiles[4] = <<2, 2, 1, 1>>

(***************************************************************************)
(* C4: with an unknown CRS, an invalid direct bounding box and no guess    *)
(* candidate accepted, process_sid returns [] and has run the quarantine   *)
(* step (one log append, one copy pass) exactly once.                      *)
(***************************************************************************)
GuessExhausted ==
    /\ pc = "done"
    /\ Len(guessed) = 13
    /\ valid = "invalid"

C4_ExhaustionQuarantinesOnce ==
    GuessExhausted =>
        /\ outcome = "returned"
        /\ ret = <<>>
        /\ nquar = 1
        /\ Len(logs) = 1

C4_Witness ==
    /\ GuessExhausted
    /\ cfg.TARGET_EPSG # None
    /\ epsg = None
    /\ nquar = 1
    /\ Join(FailedProcessing, Basename(path)) \in fs

(***************************************************************************)
(* C5: the guess candidates are tried in the order [target reference       *)
(* system, 4326, 3857, 32610..32619].                                      *)
(***************************************************************************)
ClaimedOrder ==
    <<cfg.TARGET_EPSG, 4326, 3857, 32610, 32611, 32612, 32613, 32614, 32615,
      32616, 32617, 32618, 32619>>

C5_GuessOrderStartsAtTarget ==
    cfg.TARGET_EPSG # None =>
        /\ Len(guessed) <= Len(ClaimedOrder)
        /\ \A i \in 1..Len(guessed) : guessed[i] = ClaimedOrder[i]

(***************************************************************************)
(* C8: when a run of process_sid has ended, its temporaries are gone: the  *)
(* <base>_warp.tif of the output directory, every <base>_guess_<code>.tif  *)
(* and the temporary directory holding them.                               *)
(***************************************************************************)
C8_SidTemporariesDeleted ==
    pc = "done" =>
        /\ WarpTmp \notin fs
        /\ TmpDir \notin fs
        /\ \A q \in fs : Dirname(q) # TmpDir

(***************************************************************************)
(* C10: a run that ended in failure has left no JPEG of its own in the     *)
(* output directory (which held none before the run).                      *)
(***************************************************************************)
C10_FailedRunLeavesNoOutput ==
    (pc = "done" /\ outcome = "returned" /\ ret = <<>>) =>
        \A q \in fs : ~(Dirname(q) = OutputDir /\ EndsWith(q, ".jpg"))

(***************************************************************************)
(* process_tiff, one action per engine call.  A failing call of the gdal   *)
(* bindings raises (exceptions enabled) or returns None and writes nothing *)
(* (exceptions disabled, the default before GDAL 4); a call whose source   *)
(* raster does not exist cannot succeed.                                   *)
(***************************************************************************)
RECURSIVE ReplaceAll(_, _, _)
ReplaceAll(s, old, new) ==
    IF Len(s) < Len(old) THEN s
    ELSE IF SubSeq(s, 1, Len(old)) = old
    THEN new \o ReplaceAll(SubSeq(s, Len(old) + 1, Len(s)), old, new)
    ELSE SubSeq(s, 1, 1) \o ReplaceAll(SubSeq(s, 2, Len(s)), old, new)

\* Path(tif_path).with_suffix("").with_suffix(ext), for a stem without dots
WithSuffix(p, ext) == SplitextRoot(p) \o ext

TiffTmpTif ==
    Join(TmpDir, BaseOf(path) \o "_to_" \o ToString(cfg.TARGET_EPSG) \o ".tif")

TiffTmpJpg == Join(TmpDir, BaseOf(path) \o ".jpg")

PrimaryJpg == Join(OutputDir, Basename(TiffTmpJpg))

CorrectedTif == Join(OutputDir, BaseOf(path) \o "_corrected.tif")

ReprojectedTif ==
    Join(OutputDir, BaseOf(path) \o "_EPSG" \o ToString(cfg.TARGET_EPSG) \o ".tif")

GeoJpg ==
    Join(OutputDir, BaseOf(path) \o "_EPSG" \o ToString(cfg.TARGET_EPSG) \o ".jpg")

VrtPath == path \o ".vrt"

TfwxPath == ReplaceAll(path, ".tif", ".tfwx")

\* leaving `with tempfile.TemporaryDirectory()`
WithoutTmpDir(f) == {q \in f : q # TmpDir /\ Dirname(q) # TmpDir}

\* an exception leaves process_tiff: nothing catches it there
TiffRaise(f) ==
    /\ fs' = f
    /\ outcome' = "raised"
    /\ pc' = "done"
    /\ UNCHANGED <<logs, nquar, copyFailed, ncopy, ret>>

TiffReturn(jpg, f) ==
    /\ fs' = f
    /\ ret' = <<jpg>>
    /\ outcome' = "returned"
    /\ pc' = "done"
    /\ UNCHANGED <<logs, nquar, copyFailed, ncopy>>

\* lines 252-254
TiffFail(f) ==
    /\ Quarantine("TIFF processing failed", f)
    /\ ret' = <<>>
    /\ outcome' = "returned"
    /\ pc' = "done"

\* lines 233-238 and 146-155: the extension check, _ensure_worldfile, the
\* temporary directory, gdal.Info on the input, the resolver
TiffBegin ==
    /\ pc = "start"
    /\ IF ~(EndsWith(Lower(path), ".tif") \/ EndsWith(Lower(path), ".tiff"))
       THEN /\ TiffRaise(fs)
            /\ UNCHANGED epsg
       ELSE \E copied \in EngineCopied, ok \in EngineOk :
            LET f1 == IF WithSuffix(path, ".tfwx") \in fs
                         /\ WithSuffix(path, ".tfw") \notin fs /\ copied
                      THEN fs \cup {WithSuffix(path, ".tfw")} ELSE fs
            IN IF cfg.TARGET_EPSG = None \/ ~ok
               THEN /\ TiffRaise(f1)
                    /\ UNCHANGED epsg
               ELSE /\ epsg' = ExtractEpsg(ev)
                    /\ IF epsg' = None
                       THEN /\ fs' = f1
                            /\ pc' = "secondary"
                       ELSE /\ fs' = f1 \cup {TmpDir}
                            /\ pc' = "primaryWarp"
                    /\ UNCHANGED <<logs, nquar,
                                   copyFailed, ncopy, ret, outcome>>
    /\ UNCHANGED <<cfg, fn, oracle, run, first, wrote, plan, dirs, checked,
                   listed,
                   ev, path, box, valid, calls, src, tmpFiles, size, tx,
                   ty, tiles, gi, guessed, status, aux,
                   todo, queue>>

\* lines 156-160: gdal.Translate when src_epsg is the target, else gdal.Warp
TiffPrimaryWarp ==
    /\ pc = "primaryWarp"
    /\ calls' = Append(calls,
                       IF ~NeedsWarp(epsg)
                       THEN TranslateCall(path, TiffTmpTif, 0, <<>>)
                       ELSE WarpCall(path, TiffTmpTif, epsg))
    /\ \E r \in EngineResult :
        CASE r = "ok" ->
                /\ fs' = fs \cup {TiffTmpTif}
                /\ pc' = "primaryJpeg"
                /\ UNCHANGED <<logs, nquar, copyFailed, ncopy, ret, outcome>>
          [] r = "raise" -> TiffRaise(WithoutTmpDir(fs))
          [] r = "silent" ->
                /\ pc' = "primaryJpeg"
                /\ UNCHANGED <<fs, logs, nquar,
                               copyFailed, ncopy, ret, outcome>>
    /\ UNCHANGED <<cfg, fn, oracle, run, first, wrote, plan, dirs, checked,
                   listed,
                   ev, path, epsg, box, valid, src, tmpFiles, size, tx,
                   ty, tiles, gi, guessed, status, aux,
                   todo, queue>>

\* lines 161-170: the JPEG inside the temporary directory, moved to the
\* output directory with its .aux.xml when there is one
TiffPrimaryJpeg ==
    /\ pc = "primaryJpeg"
    /\ calls' = Append(calls, TranslateCall(TiffTmpTif, TiffTmpJpg,
                                            cfg.JPEG_QUALITY, <<>>))
    /\ \E r \in EngineResult, withAux \in EngineAux :
        IF r = "ok" /\ TiffTmpTif \in fs
        THEN /\ fs' = WithoutTmpDir(fs) \cup {PrimaryJpg}
                      \cup (IF withAux THEN {PrimaryJpg \o ".aux.xml"} ELSE {})
             /\ pc' = "primaryCheck"
             /\ UNCHANGED <<logs, nquar, copyFailed, ncopy, ret, outcome>>
        ELSE \* the call raises, or shutil.move finds no JPEG to move
             TiffRaise(WithoutTmpDir(fs))
    /\ UNCHANGED <<cfg, fn, oracle, run, first, wrote, plan, dirs, checked,
                   listed,
                   ev, path, epsg, box, valid, src, tmpFiles, size, tx,
                   ty, tiles, gi, guessed, status, aux,
                   todo, queue>>

\* process_tiff going on to the secondary tier whatever the primary gave
PrimaryAcceptedNever(b) == FALSE

\* process_tiff returning the primary tier's JPEG whatever its bounding box
PrimaryAcceptedAlways(b) == TRUE

\* line 242: `if bbox and _bbox_valid(bbox)` on the primary tier's JPEG
PrimaryAccepted(b) == BboxAccepted(cfg, b)

\* lines 239-244: gdal.Info on the primary JPEG and its bbox
TiffPrimaryCheck ==
    /\ pc = "primaryCheck"
    /\ \E ok \in EngineOk, b \in EngineBox :
        IF ~ok
        THEN /\ TiffRaise(fs)
             /\ UNCHANGED <<checked, box, valid>>
        ELSE /\ box' = b
             /\ checked' = PrimaryJpg
             /\ valid' = IF PrimaryAccepted(b) THEN "valid" ELSE "invalid"
             /\ IF PrimaryAccepted(b)
                THEN TiffReturn(PrimaryJpg, fs)
                ELSE /\ pc' = "secondary"
                     /\ UNCHANGED <<fs, logs, nquar,
                                    copyFailed, ncopy, ret, outcome>>
    /\ UNCHANGED <<cfg, fn, oracle, run, first, wrote, plan, dirs, listed,
                   ev, path, epsg, calls, src, tmpFiles, size, tx, ty,
                   tiles, gi, guessed, status, aux,
                   todo, queue>>

\* lines 174-215: spatial_ref from the .aux.xml WKT, else the dataset's
\* projection, else "EPSG:4326" when the .tfwx path exists
HasSpatialRef == aux.wkt \/ aux.projection \/ TfwxPath \in fs

TiffSecondary ==
    /\ pc = "secondary"
    /\ IF ~HasSpatialRef
       THEN TiffFail(fs)
       ELSE /\ pc' = IF aux.gcps THEN "secVrt" ELSE "secCorrect"
            /\ UNCHANGED <<fs, logs, nquar, copyFailed, ncopy, ret, outcome>>
    /\ UNCHANGED <<cfg, fn, oracle, run, first, wrote, plan, dirs, checked,
                   listed,
                   ev, path, epsg, box, valid, calls, src, tmpFiles, size,
                   tx, ty, tiles, gi, guessed, status, aux,
                   todo, queue>>

\* lines 218-219: gdal.Translate(vrt_path, tif_path, GCPs=...)
TiffSecVrt ==
    /\ pc = "secVrt"
    /\ calls' = Append(calls, TranslateCall(path, VrtPath, 0, <<>>))
    /\ \E r \in EngineResult, partial \in EnginePartial :
        CASE r = "ok" ->
                /\ fs' = fs \cup {VrtPath}
                /\ pc' = "secWarpVrt"
                /\ UNCHANGED <<logs, nquar, copyFailed, ncopy, ret, outcome>>
          [] r = "raise" -> TiffRaise(Written(fs, VrtPath, FALSE, partial))
          [] r = "silent" ->
                /\ pc' = "secWarpVrt"
                /\ UNCHANGED <<fs, logs, nquar,
                               copyFailed, ncopy, ret, outcome>>
    /\ UNCHANGED <<cfg, fn, oracle, run, first, wrote, plan, dirs, checked,
                   listed,
                   ev, path, epsg, box, valid, src, tmpFiles, size, tx,
                   ty, tiles, gi, guessed, status, aux,
                   todo, queue>>

\* lines 220-221: gdal.Warp(corrected_tif, vrt_path, ...); os.remove(vrt_path)
TiffSecWarpVrt ==
    /\ pc = "secWarpVrt"
    /\ calls' = Append(calls, WarpCall(VrtPath, CorrectedTif, None))
    /\ \E r \in EngineResult, partial \in EnginePartial :
        IF r = "raise" \/ VrtPath \notin fs
        THEN \* the call raises, or os.remove raises FileNotFoundError
             TiffRaise(IF r = "raise"
                       THEN Written(fs, CorrectedTif, FALSE, partial) ELSE fs)
        ELSE /\ fs' = (IF r = "ok" THEN fs \cup {CorrectedTif} ELSE fs)
                      \ {VrtPath}
             /\ pc' = "secReproject"
             /\ UNCHANGED <<logs, nquar, copyFailed, ncopy, ret, outcome>>
    /\ UNCHANGED <<cfg, fn, oracle, run, first, wrote, plan, dirs, checked,
                   listed,
                   ev, path, epsg, box, valid, src, tmpFiles, size, tx,
                   ty, tiles, gi, guessed, status, aux,
                   todo, queue>>

\* line 223: gdal.Translate(corrected_tif, tif_path, outputSRS=spatial_ref)
TiffSecCorrect ==
    /\ pc = "secCorrect"
    /\ calls' = Append(calls, TranslateCall(path, CorrectedTif, 0, <<>>))
    /\ \E r \in EngineResult, partial \in EnginePartial :
        CASE r = "ok" ->
                /\ fs' = fs \cup {CorrectedTif}
                /\ pc' = "secReproject"
                /\ UNCHANGED <<logs, nquar, copyFailed, ncopy, ret, outcome>>
          [] r = "raise" -> TiffRaise(Written(fs, CorrectedTif, FALSE, partial))
          [] r = "silent" ->
                /\ pc' = "secReproject"
                /\ UNCHANGED <<fs, logs, nquar,
                               copyFailed, ncopy, ret, outcome>>
    /\ UNCHANGED <<cfg, fn, oracle, run, first, wrote, plan, dirs, checked,
                   listed,
                   ev, path, epsg, box, valid, src, tmpFiles, size, tx,
                   ty, tiles, gi, guessed, status, aux,
                   todo, queue>>

\* line 225: gdal.Warp(reprojected_tif, corrected_tif, dstSRS=target)
TiffSecReproject ==
    /\ pc = "secReproject"
    /\ calls' = Append(calls, WarpCall(CorrectedTif, ReprojectedTif, None))
    /\ \E r \in EngineResult, partial \in EnginePartial :
        IF r = "ok" /\ CorrectedTif \in fs
        THEN /\ fs' = fs \cup {ReprojectedTif}
             /\ pc' = "secJpeg"
             /\ UNCHANGED <<logs, nquar, copyFailed, ncopy, ret, outcome>>
        ELSE IF r = "raise"
        THEN TiffRaise(Written(fs, ReprojectedTif, FALSE, partial))
        ELSE /\ pc' = "secJpeg"
             /\ UNCHANGED <<fs, logs, nquar, copyFailed, ncopy, ret, outcome>>
    /\ UNCHANGED <<cfg, fn, oracle, run, first, wrote, plan, dirs, checked,
                   listed,
                   ev, path, epsg, box, valid, src, tmpFiles, size, tx,
                   ty, tiles, gi, guessed, status, aux,
                   todo, queue>>

\* lines 226-229: the JPEG, then os.remove of both intermediates
TiffSecJpeg ==
    /\ pc = "secJpeg"
    /\ calls' = Append(calls, TranslateCall(ReprojectedTif, GeoJpg,
                                            cfg.JPEG_QUALITY, <<>>))
    /\ \E r \in EngineResult, partial \in EnginePartial :
        LET made == r = "ok" /\ ReprojectedTif \in fs
            f1 == IF made THEN fs \cup {GeoJpg} ELSE fs
        IN IF r = "raise"
           THEN TiffRaise(Written(fs, GeoJpg, FALSE, partial))
           ELSE IF CorrectedTif \notin fs
           THEN TiffRaise(f1)
           ELSE IF ReprojectedTif \notin fs
           THEN TiffRaise(f1 \ {CorrectedTif})
           ELSE /\ fs' = f1 \ {CorrectedTif, ReprojectedTif}
                /\ pc' = "secCheck"
                /\ UNCHANGED <<logs, nquar, copyFailed, ncopy, ret, outcome>>
    /\ UNCHANGED <<cfg, fn, oracle, run, first, wrote, plan, dirs, checked,
                   listed,
                   ev, path, epsg, box, valid, src, tmpFiles, size, tx,
                   ty, tiles, gi, guessed, status, aux,
                   todo, queue>>

\* lines 246-254: gdal.Info on the secondary JPEG and its bbox
TiffSecCheck ==
    /\ pc = "secCheck"
    /\ \E ok \in EngineOk, b \in EngineBox :
        IF ~ok \/ GeoJpg \notin fs
        THEN /\ TiffRaise(fs)
             /\ UNCHANGED <<checked, box, valid>>
        ELSE /\ box' = b
             /\ checked' = GeoJpg
             /\ valid' = IF BboxAccepted(cfg, b) THEN "valid" ELSE "invalid"
             /\ IF BboxAccepted(cfg, b)
                THEN TiffReturn(GeoJpg, fs)
                ELSE TiffFail(fs)
    /\ UNCHANGED <<cfg, fn, oracle, run, first, wrote, plan, dirs, listed,
                   ev, path, epsg, calls, src, tmpFiles, size, tx, ty,
                   tiles, gi, guessed, status, aux,
                   todo, queue>>

(***************************************************************************)
(* One run of process_tiff on one input.                                   *)
(***************************************************************************)
TiffPaths == {"in/a.tif", "in/a.TIFF", "in/a.sid"}

OpenNative == [ClosedNative EXCEPT !.open = TRUE]

XmlSidecar == [NoSidecar EXCEPT !.exists = TRUE]

\* the evidence process_tiff is checked on: that of process_sid, and inputs
\* with a projection or a <path>.aux.xml that name no authority code
TiffEvidence ==
    PipelineEvidence \cup
    {[NoEvidence EXCEPT !.native = OpenNative],
     [NoEvidence EXCEPT !.sidecars[3] = XmlSidecar],
     [NoEvidence EXCEPT !.epsgField = 4326, !.native = OpenNative],
     [NoEvidence EXCEPT !.epsgField = 4326, !.sidecars[3] = XmlSidecar]}

\* what the secondary tier can find, given the evidence: a projection needs
\* a dataset that opens, WKT and GCP elements need a parsable <path>.aux.xml
AuxChoices(e) ==
    {a \in [wkt : BOOLEAN, gcps : BOOLEAN, projection : BOOLEAN] :
        /\ a.projection => e.native.open
        /\ (a.wkt \/ a.gcps) =>
              (e.sidecars[3].exists /\ e.sidecars[3].parse = "xml")}

InitTiff ==
    /\ Fresh
    /\ cfg \in {c \in Configs : c.SID_TILE_WIDTH = 1 /\ c.SID_TILE_HEIGHT = 1}
    /\ ev \in TiffEvidence
    /\ path \in TiffPaths
    /\ fn = "process_tiff"
    /\ aux \in AuxChoices(ev)
    /\ \E tfwx \in BOOLEAN :
        fs = InputFiles(path, ev) \cup {Sibling}
             \cup (IF tfwx THEN {WithSuffix(path, ".tfwx")} ELSE {})
    /\ status = <<>>
    /\ todo = <<>>
    /\ dirs = <<>>
    /\ oracle = <<>>
    /\ pc = "start"

NextTiff ==
    \/ TiffBegin
    \/ TiffPrimaryWarp
    \/ TiffPrimaryJpeg
    \/ TiffPrimaryCheck
    \/ TiffSecondary
    \/ TiffSecVrt
    \/ TiffSecWarpVrt
    \/ TiffSecCorrect
    \/ TiffSecReproject
    \/ TiffSecJpeg
    \/ TiffSecCheck

SpecTiff == InitTiff /\ [][NextTiff]_vars

(***************************************************************************)
(* image_test.py: _iter_files, the two wrappers and main.  A run of a      *)
(* pipeline function is one step here: it returns a result ("ok"), returns *)
(* its failure value ("failed") or raises ("raised").                      *)
(***************************************************************************)
SidInput == "TestSIDInput"
TiffInput == "TestTIFFInput"

\* directory entries: a name, and whether os.path.isfile holds of it
SidEntries ==
    <<[name |-> "a.sid", isfile |-> TRUE], [name |-> "b.SID", isfile |-> TRUE],
      [name |-> "c.txt", isfile |-> TRUE], [name |-> "d.sid", isfile |-> FALSE]>>

TiffEntries ==
    <<[name |-> "a.tif", isfile |-> TRUE], [name |-> "b.TIFF", isfile |-> TRUE],
      [name |-> "c.sid", isfile |-> TRUE]>>

RECURSIVE Pick(_, _, _)
Pick(entries, keep, i) ==
    IF i > Len(entries) THEN <<>>
    ELSE (IF i \in keep THEN <<entries[i]>> ELSE <<>>) \o Pick(entries, keep, i + 1)

Listings(entries) == {Pick(entries, keep, 1) : keep \in SUBSET (1..Len(entries))}

RECURSIVE IterFiles(_, _, _)
IterFiles(folder, listing, exts) ==
    IF listing = <<>> THEN <<>>
    ELSE (IF Head(listing).isfile
             /\ \E ext \in exts : EndsWith(Lower(Head(listing).name), ext)
          THEN <<Join(folder, Head(listing).name)>> ELSE <<>>)
         \o IterFiles(folder, Tail(listing), exts)

\* the pool made with the default size whatever MAX_WORKERS says
WorkersIgnoringConfig == DefaultWorkers

\* getattr(config, "MAX_WORKERS", 4)
Workers == IF cfg.MAX_WORKERS = None THEN DefaultWorkers ELSE cfg.MAX_WORKERS

Range(q) == {q[i] : i \in 1..Len(q)}

Running == {f \in DOMAIN status : status[f] = "running"}

RunResults == {"ok", "failed", "raised"}

MainConfigs ==
    {[c EXCEPT !.MAX_WORKERS = w] : c \in PlainConfigs, w \in {None, 1, 2}}

\* lines 41-44: both listings are enumerated before the pool is made
InitMain ==
    /\ Fresh
    /\ cfg \in {c \in MainConfigs : c.BBOX_CHECK}
    /\ ev = NoEvidence
    /\ path = ""
    /\ fn = "main"
    /\ fs = {}
    /\ aux = NoAux
    /\ \E ls \in Listings(SidEntries), lt \in Listings(TiffEntries) :
        /\ oracle = <<>>
        /\ dirs = [sid |-> ls, tiff |-> lt]
        /\ todo = IterFiles(SidInput, ls, {".sid"})
                  \o IterFiles(TiffInput, lt, {".tif", ".tiff"})
        /\ Len(todo) <= MaxFiles
        /\ status = [f \in Range(todo) |-> "pending"]
    /\ pc = "main"

\* lines 47-50: exe.submit(...)
MainSubmit ==
    /\ pc = "main"
    /\ todo # <<>>
    /\ queue' = Append(queue, Head(todo))
    /\ todo' = Tail(todo)
    /\ UNCHANGED <<cfg, fn, oracle, run, first, wrote, plan, dirs, checked,
                   listed,
                   ev, path, pc, epsg, box, valid, fs, logs, nquar,
                   copyFailed, ncopy, calls,
                   src, tmpFiles, size, tx, ty, tiles, gi, guessed, ret,
                   outcome, status, aux>>

\* a free worker thread takes the oldest submitted file and enters the wrapper
WorkerStart ==
    /\ queue # <<>>
    /\ Cardinality(Running) < Workers
    /\ status' = [status EXCEPT ![Head(queue)] = "running"]
    /\ queue' = Tail(queue)
    /\ UNCHANGED <<cfg, fn, oracle, run, first, wrote, plan, dirs, checked,
                   listed,
                   ev, path, pc, epsg, box, valid, fs, logs, nquar,
                   copyFailed, ncopy, calls,
                   src, tmpFiles, size, tx, ty, tiles, gi, guessed, ret,
                   outcome, aux, todo>>

\* the dispatcher calling the pipeline with no try/except and no pool: a
\* raising run ends main with the files behind it unprocessed
FinishRunFailFast(f) ==
    /\ status[f] = "running"
    /\ \E r \in RunResults :
        /\ status' = [status EXCEPT ![f] = r]
        /\ IF r = "raised"
           THEN pc' = "returned" /\ outcome' = "raised"
           ELSE UNCHANGED <<pc, outcome>>
    /\ UNCHANGED <<cfg, fn, oracle, run, first, wrote, plan, dirs, checked,
                   listed,
                   ev, path, epsg, box, valid, fs, logs, nquar,
                   copyFailed, ncopy, calls,
                   src, tmpFiles, size, tx, ty, tiles, gi, guessed, ret,
                   aux, todo, queue>>

\* lines 21-37: the wrapper's try/except around the pipeline function; the
\* run's end changes the state of no other file, and the worker goes on
FinishRun(f) ==
    /\ status[f] = "running"
    /\ \E r \in RunResults : status' = [status EXCEPT ![f] = r]
    /\ UNCHANGED <<cfg, fn, oracle, run, first, wrote, plan, dirs, checked,
                   listed,
                   ev, path, pc, epsg, box, valid, fs, logs, nquar,
                   copyFailed, ncopy, calls,
                   src, tmpFiles, size, tx, ty, tiles, gi, guessed, ret,
                   outcome, aux, todo, queue>>

WorkerFinish == \E f \in DOMAIN status : FinishRun(f)

\* line 46: leaving the with block is shutdown(wait=True)
MainExit ==
    /\ pc = "main"
    /\ todo = <<>>
    /\ queue = <<>>
    /\ Running = {}
    /\ pc' = "returned"
    /\ outcome' = "returned"
    /\ UNCHANGED <<cfg, fn, oracle, run, first, wrote, plan, dirs, checked,
                   listed,
                   ev, path, epsg, box, valid, fs, logs, nquar,
                   copyFailed, ncopy, calls,
                   src, tmpFiles, size, tx, ty, tiles, gi, guessed, ret,
                   status, aux, todo, queue>>

NextMain ==
    \/ MainSubmit
    \/ WorkerStart
    \/ WorkerFinish
    \/ MainExit

SpecMain == InitMain /\ [][NextMain]_vars

(***************************************************************************)
(* C6: a failure of one file's run (engine introspection failing on the    *)
(* input, or the engine failing during reprojection or translation) never  *)
(* leaves the pipeline function as an exception: the run returns its       *)
(* failure value with one log entry written and one quarantine copy made.  *)
(***************************************************************************)
ProperTiffPath ==
    EndsWith(Lower(path), ".tif") \/ EndsWith(Lower(path), ".tiff")

C6_FailuresCaughtAndQuarantined ==
    (pc = "done" /\ ProperTiffPath /\ cfg.TARGET_EPSG # None) =>
        /\ outcome = "returned"
        /\ ret = <<>> => (nquar = 1 /\ Len(logs) = 1)

(***************************************************************************)
(* C7: whatever subset of the runs fails or raises, every enumerated file  *)
(* is run to its end before main returns, main itself never raises, and    *)
(* the batch is never stuck before that.                                   *)
(***************************************************************************)
C7_SiblingsAlwaysRun ==
    /\ outcome # "raised"
    /\ pc = "returned" => \A f \in DOMAIN status : status[f] \in RunResults
    /\ pc # "returned" => ENABLED NextMain

C7_Witness ==
    /\ pc = "returned"
    /\ \E f, g, h \in DOMAIN status :
        status[f] = "raised" /\ status[g] = "failed" /\ status[h] = "ok"

(***************************************************************************)
(* C9: when a run of process_tiff has ended, its intermediates are gone:   *)
(* <base>_corrected.tif and <base>_EPSG<target>.tif of the output          *)
(* directory and <input>.vrt beside the input.                             *)
(***************************************************************************)
C9_TiffIntermediatesDeleted ==
    pc = "done" =>
        /\ CorrectedTif \notin fs
        /\ ReprojectedTif \notin fs
        /\ VrtPath \notin fs

(***************************************************************************)
(* The quarantine step on its own, one action per statement of _log_error  *)
(* and _move_to_failed, run again for each failed run of the same input.   *)
(***************************************************************************)
MaxRuns == 3

QuarantinePaths == {"in/a.sid", "in/a.tif"}

\* what else the input's directory may hold
QuarantineSiblings == {"in/a.aux.xml", "in/ab.sid", "in/b.sid"}

\* the messages the pipelines hand to _log_error
Messages(p) ==
    IF EndsWith(Lower(p), ".sid")
    THEN {"gdalinfo failed", "missing raster size"}
    ELSE {"TIFF processing failed"}

InitQuarantine ==
    /\ Fresh
    /\ cfg \in {c \in PlainConfigs : c.BBOX_CHECK}
    /\ ev = NoEvidence
    /\ path \in QuarantinePaths
    /\ fn = "quarantine"
    /\ \E others \in SUBSET QuarantineSiblings :
        fs = {path, Join(OutputDir, BaseOf(path) \o ".jpg")} \cup others
    /\ status = <<>>
    /\ todo = <<>>
    /\ dirs = <<>>
    /\ oracle = <<>>
    /\ aux = NoAux
    /\ pc = "idle"

\* _log_error, lines 118-123
LogError ==
    /\ pc = "idle"
    /\ nquar < MaxRuns
    /\ \E msg \in Messages(path) : logs' = Appended(logs, msg)
    /\ fs' = fs \cup {ErrorLogs, LogPath(path)}
    /\ pc' = "move"
    /\ UNCHANGED <<cfg, fn, oracle, run, first, wrote, plan, dirs, checked,
                   listed, copyFailed, ncopy, ev, path, epsg, box,
                   valid, nquar, calls, src, tmpFiles, size, tx, ty, tiles, gi,
                   guessed, ret, outcome, status, aux, todo, queue>>

\* _move_to_failed, lines 127-130: makedirs, then os.listdir(directory)
ListDirectory ==
    /\ pc = "move"
    /\ fs' = fs \cup {FailedProcessing}
    /\ listed' = {Basename(q) : q \in {r \in fs : Dirname(r) = Dirname(path)}}
    /\ copyFailed' = {}
    /\ pc' = "copy"
    /\ UNCHANGED <<cfg, fn, oracle, run, first, wrote, plan, dirs, checked,
                   ncopy, ev, path, epsg, box, valid, logs, nquar,
                   calls, src, tmpFiles, size, tx, ty, tiles, gi, guessed, ret,
                   outcome, status, aux, todo, queue>>

\* lines 130-137, one pass of the loop: a name that starts with the base is
\* copied, and a copy that raises is passed over
CopyNext ==
    /\ pc = "copy"
    /\ \E n \in listed :
        /\ listed' = listed \ {n}
        /\ IF StartsWith(n, BaseOf(path))
           THEN \E ok \in BOOLEAN :
                IF ok
                THEN /\ fs' = AfterCopy(fs, path, n)
                     /\ ncopy' = Counted(ncopy, {n})
                     /\ UNCHANGED copyFailed
                ELSE /\ copyFailed' = copyFailed \cup {n}
                     /\ UNCHANGED <<fs, ncopy>>
           ELSE UNCHANGED <<fs, ncopy, copyFailed>>
    /\ UNCHANGED <<cfg, fn, oracle, run, first, wrote, plan, dirs, checked,
                   ev, path, pc, epsg, box, valid, logs, nquar, calls,
                   src, tmpFiles, size, tx, ty, tiles, gi, guessed, ret,
                   outcome, status, aux, todo, queue>>

\* the loop has visited every entry: _move_to_failed returns
MoveDone ==
    /\ pc = "copy"
    /\ listed = {}
    /\ nquar' = nquar + 1
    /\ pc' = "idle"
    /\ UNCHANGED <<cfg, fn, oracle, run, first, wrote, plan, dirs, checked,
                   listed, copyFailed, ncopy, ev, path, epsg, box,
                   valid, fs, logs, calls, src, tmpFiles, size, tx, ty, tiles,
                   gi, guessed, ret, outcome, status, aux, todo, queue>>

NextQuarantine ==
    \/ LogError
    \/ ListDirectory
    \/ CopyNext
    \/ MoveDone

SpecQuarantine == InitQuarantine /\ [][NextQuarantine]_vars

(***************************************************************************)
(* C11: process_tiff starts with the primary tier, and the secondary tier  *)
(* is started only from the primary tier returning no result because the   *)
(* resolver found no CRS (no engine call made yet), or from a primary JPEG *)
(* whose bounding box is absent or rejected; every engine call of the      *)
(* primary tier precedes every call of the secondary tier.                 *)
(***************************************************************************)
SecondaryOutputs == {VrtPath, CorrectedTif, ReprojectedTif, GeoJpg}

PrimaryBeforeSecondary ==
    \A i, j \in 1..Len(calls) :
        (calls[i].dst \in SecondaryOutputs /\ calls[j].dst \notin SecondaryOutputs)
            => j < i

C11_SecondaryOnlyAfterPrimary ==
    /\ [](fn = "process_tiff" => PrimaryBeforeSecondary)
    /\ [][(fn = "process_tiff" /\ pc # "secondary" /\ pc' = "secondary") =>
            \/ pc = "start" /\ epsg' = None /\ calls = <<>>
            \/ /\ pc = "primaryCheck"
               /\ PrimaryJpg \in fs
               /\ ~(box' # <<>> /\ BboxValid(cfg, box'))]_vars

C11_Witness ==
    /\ fn = "process_tiff"
    /\ pc = "secCorrect"
    /\ epsg # None
    /\ PrimaryJpg \in fs
    /\ valid = "invalid"
    /\ Len(calls) = 2

(***************************************************************************)
(* C12: a run of process_tiff whose primary JPEG was made and not accepted *)
(* and whose secondary tier was started ends by returning: either the      *)
(* secondary <base>_EPSG<target>.jpg, its bounding box validated, or no    *)
(* result after exactly one quarantine (one log line, one copy pass).      *)
(***************************************************************************)
SecondaryStarted ==
    \E i \in 1..Len(calls) : calls[i].dst \in SecondaryOutputs

C12_TiffReturnsByTier ==
    (fn = "process_tiff" /\ pc = "done" /\ PrimaryJpg \in fs /\ SecondaryStarted)
        => /\ outcome = "returned"
           /\ \/ ret = <<GeoJpg>> /\ valid = "valid" /\ GeoJpg \in fs
              \/ ret = <<>> /\ nquar = 1 /\ Len(logs) = 1

\* the part of C12 that the code keeps: what a run that returns, returns
TiffReturnedByTier ==
    (fn = "process_tiff" /\ pc = "done" /\ outcome = "returned") =>
        \/ ret = <<PrimaryJpg>> /\ valid = "valid" /\ ~SecondaryStarted
        \/ ret = <<GeoJpg>> /\ valid = "valid" /\ GeoJpg \in fs
        \/ ret = <<>> /\ nquar = 1 /\ Len(logs) = 1

(***************************************************************************)
(* Both pipelines: a run of process_sid or a run of process_tiff.          *)
(***************************************************************************)
InitPipelines == InitSid \/ InitTiff

NextPipelines ==
    \/ fn = "process_sid" /\ NextSid
    \/ fn = "process_tiff" /\ NextTiff

SpecPipelines == InitPipelines /\ [][NextPipelines]_vars

(***************************************************************************)
(* C13: with a target configured and a resolved CRS, once the reprojection *)
(* step is behind: process_sid has issued no gdalwarp when the CRS is the  *)
(* target, and validates and tiles the input itself; otherwise it has      *)
(* issued exactly one, first of all its calls, from the input with that    *)
(* CRS as source and the target as destination into <base>_warp.tif, and   *)
(* tiles that raster.  The TIFF primary tier's first call is a plain       *)
(* translate of the input when the CRS is the target and a warp from that  *)
(* CRS to the target otherwise, and it issues no other warp.               *)
(***************************************************************************)
IsWarp(c) == c.op = "warp"

PrimaryCalls == SelectSeq(calls, LAMBDA c : c.dst \notin SecondaryOutputs)

SidWarpBehind ==
    /\ fn = "process_sid"
    /\ cfg.TARGET_EPSG # None
    /\ epsg # None
    /\ pc \in {"validate", "tile", "done"}

TiffWarpBehind ==
    /\ fn = "process_tiff"
    /\ cfg.TARGET_EPSG # None
    /\ epsg # None
    /\ pc \notin {"start", "primaryWarp"}

C13_ReprojectOnlyWhenDifferent ==
    /\ SidWarpBehind =>
          IF epsg = cfg.TARGET_EPSG
          THEN /\ SelectSeq(calls, IsWarp) = <<>>
               /\ pc # "done" => src = path
               /\ \A i \in 1..Len(calls) : calls[i].src = path
          ELSE /\ SelectSeq(calls, IsWarp) =
                    <<[op |-> "warp", src |-> path, dst |-> WarpTmp,
                       s_srs |-> epsg, t_srs |-> cfg.TARGET_EPSG,
                       quality |-> 0, win |-> <<>>]>>
               /\ IsWarp(calls[1])
               /\ \A i \in 2..Len(calls) : calls[i].src = WarpTmp
    /\ TiffWarpBehind =>
          /\ PrimaryCalls # <<>>
          /\ PrimaryCalls[1] =
                IF epsg = cfg.TARGET_EPSG
                THEN [op |-> "translate", src |-> path, dst |-> TiffTmpTif,
                      s_srs |-> None, t_srs |-> None, quality |-> 0,
                      win |-> <<>>]
                ELSE [op |-> "warp", src |-> path, dst |-> TiffTmpTif,
                      s_srs |-> epsg, t_srs |-> cfg.TARGET_EPSG,
                      quality |-> 0, win |-> <<>>]
          /\ \A i \in 2..Len(PrimaryCalls) : ~IsWarp(PrimaryCalls[i])

C13_Witness ==
    /\ SidWarpBehind
    /\ epsg = 4326
    /\ cfg.TARGET_EPSG = 4269
    /\ pc = "done"
    /\ Len(ret) > 1
    /\ IsWarp(calls[1])

C13_WitnessTiff ==
    /\ TiffWarpBehind
    /\ epsg = cfg.TARGET_EPSG
    /\ ret = <<PrimaryJpg>>

(***************************************************************************)
(* C14: a run of process_sid with a resolved CRS whose bounding box after  *)
(* the reprojection step is absent or rejected has returned [] with that   *)
(* one failure logged and one quarantine pass; it has tried no guess       *)
(* candidate, issued no engine call besides its one gdalwarp at most, and  *)
(* written no tile.                                                        *)
(***************************************************************************)
RejectedAfterWarp ==
    /\ fn = "process_sid"
    /\ epsg # None
    /\ valid = "invalid"

C14_InvalidAfterWarpFailsAtOnce ==
    RejectedAfterWarp =>
        /\ pc = "done"
        /\ outcome = "returned"
        /\ ret = <<>>
        /\ logs = <<"invalid bbox after warp">>
        /\ nquar = 1
        /\ guessed = <<>>
        /\ TmpDir \notin fs
        /\ tiles = <<>>
        /\ Len(calls) <= 1
        /\ \A i \in 1..Len(calls) : IsWarp(calls[i])
        /\ \A q \in fs : ~(Dirname(q) = OutputDir /\ EndsWith(q, ".jpg"))

C14_Witness ==
    /\ RejectedAfterWarp
    /\ box = FarBox
    /\ Len(calls) = 1
    /\ calls[1].s_srs = 4326
    /\ nquar = 1

(***************************************************************************)
(* C15: the resolver's answer is the code of the first source, in the      *)
(* order epsg field, metadata WKT, native projection (projected node,      *)
(* geographic node, unscoped, auto-identification), <stem>.aux.xml,        *)
(* <stem>.prj, <path>.aux.xml, that yields a code; no source after that    *)
(* one is consulted; the answer is unknown only when no source yields one. *)
(* A native code of 7019 is no yield.                                      *)
(***************************************************************************)
Numeric(v) == IF v = NonNumeric THEN None ELSE v

FirstOf(t) == IF t # <<>> THEN t[1] ELSE None

NativeYield(n, v) == IF n.open /\ v # BadEpsg THEN v ELSE None

SidecarYield(s) ==
    CASE ~s.exists -> None
      [] s.exists /\ s.parse = "xml" ->
            IF s.wkid # None THEN s.wkid
            ELSE IF s.latest # None THEN s.latest
            ELSE FirstOf(s.text.auth)
      [] s.exists /\ s.parse = "ParseError" ->
            IF s.text.auth # <<>> THEN FirstOf(s.text.auth)
            ELSE FirstOf(s.text.colon)
      [] OTHER -> None

SourceOrder ==
    <<"epsg", "wkt", "native", "native", "native", "native",
      "stem.aux.xml", "stem.prj", "path.aux.xml">>

SourceYields(e) ==
    <<Numeric(e.epsgField),
      IF e.wkt.auth # <<>> THEN FirstOf(e.wkt.auth) ELSE FirstOf(e.wkt.colon),
      NativeYield(e.native, e.native.projcs),
      NativeYield(e.native, e.native.geogcs),
      NativeYield(e.native, e.native.root),
      IF e.native.autoRaises THEN None ELSE NativeYield(e.native, e.native.auto),
      SidecarYield(e.sidecars[1]),
      SidecarYield(e.sidecars[2]),
      SidecarYield(e.sidecars[3])>>

Yielding(e) == {i \in 1..9 : SourceYields(e)[i] # None}

Winner(e) == CHOOSE i \in Yielding(e) : \A j \in Yielding(e) : i <= j

\* the distinct sources from the first to the one of index i
UpTo(i) ==
    LET G == <<1, 2, 3, 3, 3, 3, 4, 5, 6>>
        N == <<"epsg", "wkt", "native", "stem.aux.xml", "stem.prj",
               "path.aux.xml">>
    IN [k \in 1..G[i] |-> N[k]]

C15_FirstYieldingSourceWins ==
    (fn = "_extract_epsg" /\ pc = "resolved") =>
        IF Yielding(ev) = {}
        THEN epsg = None /\ Consulted(ev) = UpTo(9)
        ELSE /\ epsg = SourceYields(ev)[Winner(ev)]
             /\ epsg # None
             /\ Consulted(ev) = UpTo(Winner(ev))

C15_Witness ==
    /\ fn = "_extract_epsg"
    /\ pc = "resolved"
    /\ Yielding(ev) # {}
    /\ Winner(ev) = 4
    /\ ev.native.projcs = BadEpsg
    /\ epsg = 4269
    /\ SidecarYield(ev.sidecars[1]) = 4326

(***************************************************************************)
(* C16: no reprojection call of either pipeline has 7019 as its source     *)
(* reference system.                                                       *)
(***************************************************************************)
C16_NeverWarpsFromBadEpsg ==
    \A i \in 1..Len(calls) : IsWarp(calls[i]) => calls[i].s_srs # BadEpsg

\* the part of C16 that the code keeps: process_sid on its own
SidNeverWarpsFromBadEpsg ==
    fn = "process_sid" => (epsg # BadEpsg /\ C16_NeverWarpsFromBadEpsg)

(***************************************************************************)
(* C17: a run of process_sid whose validated raster reports width 0 or     *)
(* height 0 (a missing size reads as 0 x 0) has returned [] with the one   *)
(* log line "missing raster size" and one quarantine pass, and has issued  *)
(* no tile conversion.                                                     *)
(***************************************************************************)
ValidatedWithoutSize ==
    /\ fn = "process_sid"
    /\ epsg # None
    /\ valid = "valid"
    /\ (size[1] = 0 \/ size[2] = 0)

C17_MissingSizeFails ==
    ValidatedWithoutSize =>
        /\ pc = "done"
        /\ outcome = "returned"
        /\ ret = <<>>
        /\ logs = <<"missing raster size">>
        /\ nquar = 1
        /\ tiles = <<>>
        /\ \A i \in 1..Len(calls) : IsWarp(calls[i])
        /\ \A q \in fs : ~(Dirname(q) = OutputDir /\ EndsWith(q, ".jpg"))
        /\ LogPath(path) \in fs

C17_Witness ==
    /\ ValidatedWithoutSize
    /\ size = <<3, 0>>
    /\ logs = <<"missing raster size">>
    /\ Join(FailedProcessing, Basename(path)) \in fs

(***************************************************************************)
(* C18: one quarantine of input p appends one line to <base>.log in the    *)
(* error-log directory, which exists from then on, before it copies        *)
(* anything; the failed-processing directory holds copies of nothing but   *)
(* the names of p's directory that start with p's base name, and of every  *)
(* one of those unless its copy failed; the input directory is never       *)
(* changed.                                                                *)
(***************************************************************************)
InputDirectory == {q \in fs : Dirname(q) = Dirname(path)}

WithBase ==
    {Basename(q) : q \in {r \in InputDirectory :
        SubSeq(Basename(r), 1, Len(BaseOf(path))) = BaseOf(path)}}

InFailed == {Basename(q) : q \in {r \in fs : Dirname(r) = FailedProcessing}}

QuarantineFrame ==
    /\ pc = "idle" => Len(logs) = nquar
    /\ pc # "idle" => Len(logs) = nquar + 1
    /\ logs # <<>> => {ErrorLogs, LogPath(path)} \subseteq fs
    /\ InFailed \subseteq WithBase
    /\ (pc = "idle" /\ nquar > 0) =>
          /\ \A n \in WithBase : n \in copyFailed \/ n \in InFailed
          /\ copyFailed = {} => InFailed = WithBase

CopyFailedInRun ==
    /\ fn \in {"process_sid", "process_tiff"}
    /\ copyFailed # {}

C19_CopyFailureSwallowed ==
    CopyFailedInRun =>
        /\ pc = "done"
        /\ outcome = "returned"
        /\ ret = <<>>
        /\ nquar = 1
        /\ Len(logs) = 1
        /\ \A n \in WithBase : n \in copyFailed \/ n \in InFailed

C19_Witness ==
    /\ CopyFailedInRun
    /\ fn = "process_tiff"
    /\ path = "in/a.tif"
    /\ copyFailed = {"a.tif"}
    /\ "ab.sid" \in InFailed
    /\ outcome = "returned"

C19_WitnessSid ==
    /\ CopyFailedInRun
    /\ fn = "process_sid"
    /\ copyFailed = {"a.sid"}
    /\ "ab.sid" \in InFailed
    /\ ret = <<>>

(***************************************************************************)
(* C20: over repeated failures of one input the log only grows, by one     *)
(* line per failure and at its end, and holds as many lines as there were  *)
(* failures; every pass lists the whole input directory again, and each    *)
(* matching name it visits is copied once more, whether or not a copy of   *)
(* it is already there, unless that copy fails.                            *)
(***************************************************************************)
CopiesOf(n) == IF n \in DOMAIN ncopy THEN ncopy[n] ELSE 0

C20_QuarantineKeepsNoMemory ==
    /\ []((fn = "quarantine" /\ pc = "idle") => Len(logs) = nquar)
    /\ [][fn = "quarantine" =>
            /\ \/ logs' = logs
               \/ /\ Len(logs') = Len(logs) + 1
                  /\ SubSeq(logs', 1, Len(logs)) = logs
            /\ pc = "move" =>
                  listed' = {Basename(q) : q \in InputDirectory}
            /\ pc = "copy" =>
                  \A n \in listed \ listed' :
                      n \in WithBase =>
                          \/ n \in copyFailed'
                          \/ /\ Join(FailedProcessing, n) \in fs'
                             /\ ncopy'[n] = CopiesOf(n) + 1]_vars

C20_Witness ==
    /\ fn = "quarantine"
    /\ pc = "idle"
    /\ nquar = 3
    /\ logs = <<"gdalinfo failed", "missing raster size", "gdalinfo failed">>
    /\ CopiesOf("a.sid") = 3
    /\ CopiesOf("ab.sid") = 2

(***************************************************************************)
(* C23: a successful run on a raster with a resolved CRS returns tiles     *)
(* exactly when the validated raster is wider than the tile width or       *)
(* higher than the tile height; a raster within the tile size is returned  *)
(* as the one JPEG <base>.jpg.                                             *)
(***************************************************************************)
Oversized ==
    size[1] > cfg.SID_TILE_WIDTH \/ size[2] > cfg.SID_TILE_HEIGHT

SucceededResolved ==
    /\ fn = "process_sid"
    /\ pc = "done"
    /\ outcome = "returned"
    /\ ret # <<>>
    /\ epsg # None

C23_TiledIffOversized ==
    SucceededResolved =>
        IF Oversized
        THEN /\ Len(ret) > 1
             /\ \A i \in 1..Len(ret) : ret[i] # DirectJpg
        ELSE ret = <<DirectJpg>>

\* the part of C23 that the code keeps: an oversized raster is tiled
OversizedIsTiled ==
    (SucceededResolved /\ Oversized) =>
        /\ Len(ret) > 1
        /\ \A i \in 1..Len(ret) : ret[i] # DirectJpg

(***************************************************************************)
(* C24: after a successful run of process_tiff the only JPEG of the output *)
(* directory is the one returned.                                          *)
(***************************************************************************)
OutputJpegs == {q \in fs : Dirname(q) = OutputDir /\ EndsWith(q, ".jpg")}

C24_OneJpegPerSuccess ==
    (fn = "process_tiff" /\ pc = "done" /\ outcome = "returned" /\ ret # <<>>)
        => OutputJpegs = {ret[1]}

\* the part of C24 that the code keeps: the returned JPEG is there
ReturnedJpegExists ==
    (fn = "process_tiff" /\ pc = "done" /\ outcome = "returned" /\ ret # <<>>)
        => (Len(ret) = 1 /\ ret[1] \in OutputJpegs)

(***************************************************************************)
(* The configuration module as shipped: it defines the directories, the    *)
(* JPEG quality and the tile size, and neither TARGET_EPSG nor BBOX_CHECK  *)
(* (read as True) nor MAX_WORKERS.                                         *)
(***************************************************************************)
ShippedConfig ==
    /\ cfg.TARGET_EPSG = None
    /\ cfg.BBOX_CHECK
    /\ cfg.MAX_WORKERS = None
    /\ cfg.JPEG_QUALITY = JpegQuality

(***************************************************************************)
(* C27: under the shipped configuration no run fails on a missing          *)
(* configuration value (no AttributeError is logged) and every guess       *)
(* candidate tried is handed to gdalwarp.                                  *)
(***************************************************************************)
GuessWarps == SelectSeq(calls, LAMBDA c : c.op = "warp" /\ Dirname(c.dst) = TmpDir)

C27_ShippedConfigSuffices ==
    (ShippedConfig /\ fn = "process_sid") =>
        /\ \A i \in 1..Len(logs) : logs[i] # "AttributeError"
        /\ Len(GuessWarps) = Len(guessed)

\* with a target configured, the two hold
ConfiguredTargetSuffices ==
    (cfg.TARGET_EPSG # None /\ fn = "process_sid") =>
        /\ \A i \in 1..Len(logs) : logs[i] # "AttributeError"
        /\ Len(GuessWarps) = Len(guessed)

(***************************************************************************)
(* C29: a run of process_sid on a path ending in .sid ends by returning;   *)
(* it returns [] exactly when it ran the quarantine step, which it runs at *)
(* most once (one log line, one copy pass); until a run fails nothing is   *)
(* logged and nothing is copied, so a non-empty list is returned with no   *)
(* log line and no quarantine copy behind it.                              *)
(***************************************************************************)
ProperSidRun == fn = "process_sid" /\ EndsWith(Lower(path), ".sid")

NothingQuarantined ==
    /\ logs = <<>>
    /\ nquar = 0
    /\ ncopy = <<>>
    /\ copyFailed = {}
    /\ \A q \in fs : q \notin {ErrorLogs, FailedProcessing}
                     /\ Dirname(q) \notin {ErrorLogs, FailedProcessing}

C29_EmptyIffQuarantinedOnce ==
    ProperSidRun =>
        /\ nquar <= 1
        /\ Len(logs) = nquar
        /\ nquar = 1 => pc = "done"
        /\ pc # "done" => (outcome = "running" /\ NothingQuarantined)
        /\ pc = "done" =>
              /\ outcome = "returned"
              /\ ret = <<>> <=> nquar = 1
              /\ ret # <<>> => NothingQuarantined
              /\ nquar = 1 => {ErrorLogs, LogPath(path), FailedProcessing} \subseteq fs

C29_Witness ==
    /\ ProperSidRun
    /\ pc = "done"
    /\ ret = <<>>
    /\ nquar = 1
    /\ tiles # <<>>
    /\ logs = <<"gdal_translate failed">>
    /\ Join(FailedProcessing, Basename(path)) \in fs

C29_WitnessSuccess ==
    /\ ProperSidRun
    /\ pc = "done"
    /\ Len(ret) = 4
    /\ NothingQuarantined

(***************************************************************************)
(* C30: the k-th tile conversion of a run is the tile of column            *)
(* (k-1) mod nx and row (k-1) div nx (row-major), its window starts at     *)
(* that column's and row's pixel offset and it is written to               *)
(* <base>_<column+1>_<row+1>.jpg; the list returned names the tiles in     *)
(* that order; the names of one raster's tiles are pairwise distinct.      *)
(***************************************************************************)
TileCalls == SelectSeq(calls, LAMBDA c : c.win # <<>>)

Column(k) == (k - 1) % Nx

Row(k) == (k - 1) \div Nx

TileName(col, row) ==
    "out/" \o BaseOf(path) \o "_" \o ToString(col + 1) \o "_"
           \o ToString(row + 1) \o ".jpg"

Tiling == fn = "process_sid" /\ TileCalls # <<>>

C30_TilesRowMajorAndNamed ==
    Tiling =>
        /\ Len(TileCalls) <= Nx * Ny
        /\ \A k \in 1..Len(TileCalls) :
            /\ TileCalls[k].dst = TileName(Column(k), Row(k))
            /\ TileCalls[k].win[1] = Column(k) * cfg.SID_TILE_WIDTH
            /\ TileCalls[k].win[2] = Row(k) * cfg.SID_TILE_HEIGHT
        /\ \A j, k \in 1..Len(TileCalls) :
            j # k => TileCalls[j].dst # TileCalls[k].dst
        /\ (outcome = "running" \/ ret # <<>>) =>
            /\ Len(ret) <= Len(TileCalls)
            /\ \A k \in 1..Len(ret) : ret[k] = TileCalls[k].dst
        /\ (pc = "done" /\ ret # <<>>) => Len(ret) = Nx * Ny

C30_Witness ==
    /\ Tiling
    /\ pc = "done"
    /\ size = <<3, 4>>
    /\ cfg.SID_TILE_WIDTH = 2
    /\ cfg.SID_TILE_HEIGHT = 2
    /\ ret = <<"out/a_1_1.jpg", "out/a_2_1.jpg", "out/a_1_2.jpg", "out/a_2_2.jpg">>

(***************************************************************************)
(* C28: with bbox checking enabled, a run of either pipeline that returned *)
(* an output has had a bounding box computed and accepted (inside the      *)
(* envelope, both spans below one degree), and the raster it belonged to   *)
(* is the returned JPEG itself or the raster from which every returned     *)
(* JPEG or tile was translated.                                            *)
(***************************************************************************)
Succeeded ==
    /\ fn \in {"process_sid", "process_tiff"}
    /\ pc = "done"
    /\ outcome = "returned"
    /\ ret # <<>>

\* the last engine call that wrote q was a translate of raster r
TranslatedFrom(q, r) ==
    \E i \in 1..Len(calls) :
        /\ calls[i].dst = q
        /\ calls[i].op = "translate"
        /\ calls[i].src = r
        /\ \A j \in (i + 1)..Len(calls) : calls[j].dst # q

C28_SuccessMeansValidated ==
    (Succeeded /\ cfg.BBOX_CHECK) =>
        /\ valid = "valid"
        /\ box # <<>>
        /\ InsideEnvelope(box)
        /\ SpansBelowMax(box)
        /\ \/ ret = <<checked>>
           \/ \A k \in 1..Len(ret) : TranslatedFrom(ret[k], checked)

C28_Witness ==
    /\ Succeeded
    /\ cfg.BBOX_CHECK
    /\ fn = "process_sid"
    /\ checked = "tmp/a_guess_4326.tif"
    /\ ret = <<"out/a.jpg">>

C28_WitnessTiles ==
    /\ Succeeded
    /\ cfg.BBOX_CHECK
    /\ checked = "out/a_warp.tif"
    /\ Len(ret) = 4

C28_WitnessSecondary ==
    /\ Succeeded
    /\ cfg.BBOX_CHECK
    /\ checked = "out/a_EPSG4269.jpg"
    /\ ret = <<checked>>
    /\ "out/a.jpg" \in fs

(***************************************************************************)
(* C26: the files main hands to the pipelines are the regular files of the *)
(* SID input directory whose lower-cased name ends with .sid and those of  *)
(* the TIFF input directory ending with .tif or .tiff, and no other; each  *)
(* is submitted once (it is waiting to be submitted, or queued once, or    *)
(* taken by a worker once); no more runs are in progress than MAX_WORKERS  *)
(* (4 when it is not configured); main returns only when every one of      *)
(* them has finished.                                                      *)
(***************************************************************************)
Candidates(folder, listing, exts) ==
    {folder \o "/" \o listing[i].name : i \in
        {j \in 1..Len(listing) :
            /\ listing[j].isfile
            /\ \E ext \in exts : EndsWith(Lower(listing[j].name), ext)}}

Expected ==
    Candidates("TestSIDInput", dirs.sid, {".sid"})
        \cup Candidates("TestTIFFInput", dirs.tiff, {".tif", ".tiff"})

Occurrences(q, f) == Cardinality({i \in 1..Len(q) : q[i] = f})

PoolSize == IF cfg.MAX_WORKERS = 0 THEN 4 ELSE cfg.MAX_WORKERS

C26_EveryCandidateOnceBounded ==
    fn = "main" =>
        /\ DOMAIN status = Expected
        /\ \A f \in Expected :
            Occurrences(todo, f) + Occurrences(queue, f)
                + (IF status[f] = "pending" THEN 0 ELSE 1) = 1
        /\ \A i \in 1..Len(todo) : todo[i] \in Expected
        /\ \A i \in 1..Len(queue) : queue[i] \in Expected
        /\ Cardinality({f \in Expected : status[f] = "running"}) <= PoolSize
        /\ pc = "returned" =>
              /\ todo = <<>>
              /\ queue = <<>>
              /\ \A f \in Expected : status[f] \in {"ok", "failed", "raised"}

C26_Witness ==
    /\ fn = "main"
    /\ pc = "returned"
    /\ cfg.MAX_WORKERS = 2
    /\ Len(dirs.sid) = 4
    /\ Len(dirs.tiff) = 2
    /\ Expected = {"TestSIDInput/a.sid", "TestSIDInput/b.SID",
                   "TestTIFFInput/b.TIFF"}

C26_WitnessPoolFull ==
    /\ fn = "main"
    /\ cfg.MAX_WORKERS = 2
    /\ Cardinality(Running) = 2
    /\ queue # <<>>

(***************************************************************************)
(* Two runs of one batch in progress at the same time, as two worker       *)
(* threads of main's pool make them: each run is the sequence of file      *)
(* operations its pipeline function makes on the shared file system, and   *)
(* the operations of the two runs interleave freely.  The directories made *)
(* by tempfile.mkdtemp and tempfile.TemporaryDirectory are private to a    *)
(* run and left out.                                                       *)
(***************************************************************************)
SidOutput == "TestSIDOutput"
TiffOutput == "TestTIFFOutput"

\* what the two input directories hold
BatchSidEntries ==
    <<[name |-> "a.sid", isfile |-> TRUE], [name |-> "a_1_1.sid", isfile |-> TRUE],
      [name |-> "b.sid", isfile |-> TRUE]>>

BatchTiffEntries ==
    <<[name |-> "a.tif", isfile |-> TRUE], [name |-> "a.tiff", isfile |-> TRUE],
      [name |-> "b.tif", isfile |-> TRUE]>>

BatchFiles ==
    Range(IterFiles(SidInput, BatchSidEntries, {".sid"}))
        \cup Range(IterFiles(TiffInput, BatchTiffEntries, {".tif", ".tiff"}))

\* the output directory the wrapper of image_test.py hands to the pipeline
OutputOf(p) == IF Dirname(p) = SidInput THEN SidOutput ELSE TiffOutput

WriteOp(q) == [op |-> "write", path |-> q]
RemoveOp(q) == [op |-> "remove", path |-> q]
QuarantineOp == [op |-> "quarantine", path |-> ""]

SidJpgOf(p) == Join(OutputOf(p), BaseOf(p) \o ".jpg")

SidWarpOf(p) == Join(OutputOf(p), BaseOf(p) \o "_warp.tif")

SidTileOf(p, x, y) ==
    Join(OutputOf(p), BaseOf(p) \o "_" \o ToString(x + 1) \o "_"
                      \o ToString(y + 1) \o ".jpg")

TiffJpgOf(p) == Join(OutputOf(p), BaseOf(p) \o ".jpg")

TiffCorrectedOf(p) == Join(OutputOf(p), BaseOf(p) \o "_corrected.tif")

TiffReprojectedOf(p) ==
    Join(OutputOf(p), BaseOf(p) \o "_EPSG" \o ToString(cfg.TARGET_EPSG) \o ".tif")

TiffGeoJpgOf(p) ==
    Join(OutputOf(p), BaseOf(p) \o "_EPSG" \o ToString(cfg.TARGET_EPSG) \o ".jpg")

\* process_sid: the direct conversion; a 2 x 2 tiling of a warped raster;
\* each of them failing at its last engine call
SidPlans(p) ==
    {<<WriteOp(SidJpgOf(p))>>,
     <<WriteOp(SidJpgOf(p)), QuarantineOp>>,
     <<WriteOp(SidWarpOf(p)), WriteOp(SidTileOf(p, 0, 0)),
       WriteOp(SidTileOf(p, 1, 0)), WriteOp(SidTileOf(p, 0, 1)),
       WriteOp(SidTileOf(p, 1, 1)), RemoveOp(SidWarpOf(p))>>,
     <<WriteOp(SidWarpOf(p)), WriteOp(SidTileOf(p, 0, 0)), QuarantineOp,
       RemoveOp(SidWarpOf(p))>>}

\* process_tiff: the primary tier accepted; the primary tier rejected and
\* the secondary accepted; both rejected
TiffSecondaryOps(p) ==
    <<WriteOp(TiffJpgOf(p)), WriteOp(TiffCorrectedOf(p)),
      WriteOp(TiffReprojectedOf(p)), WriteOp(TiffGeoJpgOf(p)),
      RemoveOp(TiffCorrectedOf(p)), RemoveOp(TiffReprojectedOf(p))>>

TiffPlans(p) ==
    {<<WriteOp(TiffJpgOf(p))>>,
     TiffSecondaryOps(p),
     TiffSecondaryOps(p) \o <<QuarantineOp>>}

PlansOf(p) == IF Dirname(p) = SidInput THEN SidPlans(p) ELSE TiffPlans(p)

InitBatch ==
    /\ queue = <<>>
    /\ epsg = None
    /\ box = <<>>
    /\ valid = "none"
    /\ checked = ""
    /\ nquar = 0
    /\ listed = {}
    /\ copyFailed = {}
    /\ ncopy = <<>>
    /\ calls = <<>>
    /\ src = ""
    /\ tmpFiles = <<>>
    /\ size = <<0, 0>>
    /\ tx = 0
    /\ ty = 0
    /\ tiles = <<>>
    /\ gi = 0
    /\ guessed = <<>>
    /\ ret = <<>>
    /\ run = 1
    /\ first = <<>>
    /\ outcome = "running"
    /\ cfg \in {c \in PlainConfigs : c.BBOX_CHECK}
    /\ ev = NoEvidence
    /\ path = ""
    /\ fn = "batch"
    /\ aux = NoAux
    /\ todo = <<>>
    /\ dirs = [sid |-> BatchSidEntries, tiff |-> BatchTiffEntries]
    /\ oracle = <<>>
    /\ fs = BatchFiles
    /\ \E pair \in SUBSET BatchFiles :
        /\ Cardinality(pair) = 2
        /\ status = [p \in pair |-> "running"]
        /\ plan \in {pl \in [pair -> UNION {PlansOf(p) : p \in pair}] :
                        \A p \in pair : pl[p] \in PlansOf(p)}
        /\ wrote = [p \in pair |-> {}]
        /\ logs = [p \in pair |-> <<>>]
    /\ pc = "batch"

\* what is left of run p once its next operation is made
Advanced(p, failed) ==
    /\ plan' = [plan EXCEPT ![p] = Tail(@)]
    /\ status' = [status EXCEPT ![p] =
                    IF failed THEN "failed"
                    ELSE IF Len(plan[p]) = 1 /\ @ = "running" THEN "ok" ELSE @]

\* an engine call of run p writes its output
BatchWrite(p) ==
    /\ plan[p] # <<>>
    /\ Head(plan[p]).op = "write"
    /\ fs' = fs \cup {Head(plan[p]).path}
    /\ wrote' = [wrote EXCEPT ![p] = @ \cup {Head(plan[p]).path}]
    /\ Advanced(p, FALSE)
    /\ UNCHANGED <<cfg, fn, oracle, run, first, dirs, checked, listed,
                   copyFailed, ncopy, ev, path,
                   pc, epsg, box, valid, logs, nquar, calls, src, tmpFiles,
                   size, tx, ty, tiles, gi, guessed, ret, outcome, aux, todo,
                   queue>>

\* os.remove of run p
BatchRemove(p) ==
    /\ plan[p] # <<>>
    /\ Head(plan[p]).op = "remove"
    /\ fs' = fs \ {Head(plan[p]).path}
    /\ wrote' = [wrote EXCEPT ![p] = @ \cup {Head(plan[p]).path}]
    /\ Advanced(p, FALSE)
    /\ UNCHANGED <<cfg, fn, oracle, run, first, dirs, checked, listed,
                   copyFailed, ncopy, ev, path,
                   pc, epsg, box, valid, logs, nquar, calls, src, tmpFiles,
                   size, tx, ty, tiles, gi, guessed, ret, outcome, aux, todo,
                   queue>>

\* _log_error(base, msg) and _move_to_failed(p) of run p
BatchQuarantine(p) ==
    /\ plan[p] # <<>>
    /\ Head(plan[p]).op = "quarantine"
    /\ \E o \in CopyOutcomes(fs, p) :
        /\ logs' = [logs EXCEPT ![p] = Appended(@, "failed")]
        /\ nquar' = nquar + 1
        /\ copyFailed' = o.failed
        /\ ncopy' = Counted(ncopy, o.copied)
        /\ fs' = Quarantined(fs, p, o.copied)
        /\ wrote' = [wrote EXCEPT ![p] =
                        @ \cup {LogPath(p)}
                          \cup {Join(FailedProcessing, n) : n \in o.copied}]
    /\ Advanced(p, TRUE)
    /\ UNCHANGED <<cfg, fn, oracle, run, first, dirs, checked, listed, ev,
                   path, pc, epsg, box,
                   valid, calls, src, tmpFiles, size, tx, ty, tiles, gi,
                   guessed, ret, outcome, aux, todo, queue>>

RunWrites == \E p \in DOMAIN plan : BatchWrite(p)

RunRemoves == \E p \in DOMAIN plan : BatchRemove(p)

RunQuarantines == \E p \in DOMAIN plan : BatchQuarantine(p)

NextBatch ==
    \/ RunWrites
    \/ RunRemoves
    \/ RunQuarantines

SpecBatch == InitBatch /\ [][NextBatch]_vars

(***************************************************************************)
(* C21: two runs of distinct inputs of one batch write or remove no        *)
(* common path outside the error-log and failed-processing directories.    *)
(***************************************************************************)
QuarantineArea(q) == Dirname(q) \in {ErrorLogs, FailedProcessing}

SharedPaths(p, q) == wrote[p] \cap wrote[q]

C21_RunsWriteDisjointOutputs ==
    fn = "batch" =>
        \A p, q \in DOMAIN wrote :
            p # q => \A x \in SharedPaths(p, q) : QuarantineArea(x)

\* the part of C21 that the code keeps: inputs of the two directories, and
\* inputs none of whose base names starts with the other's
UnrelatedRunsWriteDisjointOutputs ==
    fn = "batch" =>
        \A p, q \in DOMAIN wrote :
            (p # q /\ (Dirname(p) # Dirname(q)
                       \/ (~StartsWith(BaseOf(p), BaseOf(q))
                           /\ ~StartsWith(BaseOf(q), BaseOf(p)))))
                => \A x \in SharedPaths(p, q) : QuarantineArea(x)

(***************************************************************************)
(* C22: two failing runs of distinct inputs copy no common name into the   *)
(* failed-processing directory and append to different log files.          *)
(***************************************************************************)
C22_QuarantinesDisjoint ==
    fn = "batch" =>
        \A p, q \in DOMAIN wrote :
            p # q => \A x \in SharedPaths(p, q) : ~QuarantineArea(x)

\* the part of C22 that the code keeps: inputs whose base names differ
\* and do not start with one another
UnrelatedQuarantinesDisjoint ==
    fn = "batch" =>
        \A p, q \in DOMAIN wrote :
            (p # q /\ ~StartsWith(BaseOf(p), BaseOf(q))
                   /\ ~StartsWith(BaseOf(q), BaseOf(p)))
                => \A x \in SharedPaths(p, q) : ~QuarantineArea(x)

(***************************************************************************)
(* A pipeline function called twice in a row on the same input, with an    *)
(* engine that answers each call the same way both times and nothing else  *)
(* touching the directories: the second call starts from the files the     *)
(* first one left.                                                         *)
(***************************************************************************)
SidFailSites ==
    {"none", "start", "direct", "directInfo", "guess", "guessInfo",
     "guessConvert", "warp", "validate", "tile", "tileNext"}

TiffFailSites ==
    {"none", "start", "primaryWarp", "primaryJpeg", "primaryCheck", "secVrt",
     "secWarpVrt", "secCorrect", "secReproject", "secJpeg", "secCheck"}

SidOracles ==
    {o \in [fail : SidFailSites, how : {"raise"}, partial : BOOLEAN,
            rejected : SUBSET {"directInfo", "guessInfo", "guessInfoNext",
                               "validate"},
            size : {<<2, 2>>, <<1, 0>>}] :
        o.fail = "none" => ~o.partial}

TiffOracles ==
    [fail : TiffFailSites, how : {"raise", "silent"}, partial : BOOLEAN,
     rejected : SUBSET {"primaryCheck", "secCheck"}, size : {<<1, 1>>}]

TwiceEvidence ==
    {NoEvidence,
     [NoEvidence EXCEPT !.epsgField = 4269],
     [NoEvidence EXCEPT !.epsgField = 4326]}

TwiceTiffEvidence ==
    {NoEvidence,
     [NoEvidence EXCEPT !.epsgField = 4326],
     [NoEvidence EXCEPT !.native = OpenNative],
     [NoEvidence EXCEPT !.epsgField = 4326, !.sidecars[3] = XmlSidecar]}

InitTwice ==
    /\ Fresh
    /\ cfg \in {c \in PlainConfigs : c.BBOX_CHECK}
    /\ dirs = <<>>
    /\ status = <<>>
    /\ todo = <<>>
    /\ pc = "start"
    /\ \/ /\ fn = "process_sid"
          /\ path = "in/a.sid"
          /\ ev \in TwiceEvidence
          /\ oracle \in SidOracles
          /\ aux = NoAux
          /\ fs = InputFiles(path, ev) \cup {Sibling}
       \/ /\ fn = "process_tiff"
          /\ path = "in/a.tif"
          /\ ev \in TwiceTiffEvidence
          /\ oracle \in TiffOracles
          /\ aux \in AuxChoices(ev)
          /\ \E tfwx \in BOOLEAN :
              fs = InputFiles(path, ev) \cup {Sibling}
                   \cup (IF tfwx THEN {WithSuffix(path, ".tfwx")} ELSE {})

OutputFiles == {q \in fs : Dirname(q) = OutputDir}

\* the caller calls the function again: its locals start afresh, the files,
\* the log and the failed-processing directory are as the first call left
\* them; ret holds what the first call returned until the second call
\* builds its own result
RunAgain ==
    /\ oracle # <<>>
    /\ run = 1
    /\ pc = "done"
    /\ first' = [ret |-> ret, outcome |-> outcome, out |-> OutputFiles,
                 calls |-> calls]
    /\ run' = 2
    /\ pc' = "start"
    /\ outcome' = "running"
    /\ epsg' = None
    /\ box' = <<>>
    /\ valid' = "none"
    /\ checked' = ""
    /\ calls' = <<>>
    /\ src' = ""
    /\ tmpFiles' = <<>>
    /\ size' = <<0, 0>>
    /\ tx' = 0
    /\ ty' = 0
    /\ tiles' = <<>>
    /\ gi' = 0
    /\ guessed' = <<>>
    /\ UNCHANGED <<cfg, fn, oracle, wrote, plan, dirs, listed, copyFailed,
                   ncopy, ev, path, fs, logs, nquar, ret, status, aux, todo,
                   queue>>

NextTwice ==
    \/ fn = "process_sid" /\ NextSid
    \/ fn = "process_tiff" /\ NextTiff
    \/ RunAgain

SpecTwice == InitTwice /\ [][NextTwice]_vars

(***************************************************************************)
(* C25: the second of two calls in a row on the same input ends as the     *)
(* first did: the same value returned (or the same exception raised), the  *)
(* same files in the output directory, and the same engine calls with the  *)
(* same sources, destinations, reference systems, windows and quality.     *)
(***************************************************************************)
C25_SecondRunSameOutcome ==
    (run = 2 /\ pc = "done") =>
        /\ ret = first.ret
        /\ outcome = first.outcome
        /\ OutputFiles = first.out
        /\ calls = first.calls

C25_Witness ==
    /\ run = 2
    /\ pc = "done"
    /\ fn = "process_sid"
    /\ Len(ret) = 4
    /\ WarpTmp \notin fs
    /\ Len(calls) = 5

C25_WitnessFailure ==
    /\ run = 2
    /\ pc = "done"
    /\ fn = "process_tiff"
    /\ ret = <<>>
    /\ Len(logs) = 2
    /\ PrimaryJpg \in fs

C25_WitnessGuess ==
    /\ run = 2
    /\ pc = "done"
    /\ fn = "process_sid"
    /\ Len(guessed) = 2
    /\ ret = <<DirectJpg>>

(***************************************************************************)
(* C31: _guess_epsg_and_warp removes each rejected candidate's raster      *)
(* (reprojection failed, bounding box missing or invalid) before it tries  *)
(* the next candidate, and no rejection ends the loop early; so at most    *)
(* one guess raster exists at any time; when it returns None every         *)
(* candidate was tried and its temporary directory is gone, and when it    *)
(* returns a path only that accepted raster is in the directory.           *)
(***************************************************************************)
GuessRasters == {q \in fs : Dirname(q) = TmpDir}

GuessTried == [i \in 1..Len(guessed) |-> GuessCandidates[i]]

GuessReturnedNone ==
    /\ pc = "done"
    /\ Len(logs) > 0
    /\ logs[Len(logs)] = "could not determine EPSG for SID"

GuessReturnedPath ==
    \/ pc = "guessConvert"
    \/ pc = "done" /\ gi > 0 /\ valid = "valid"

C31_RejectedGuessesRemoved ==
    fn = "process_sid" =>
        /\ Cardinality(GuessRasters) <= 1
        /\ guessed = GuessTried
        /\ pc = "guess" => GuessRasters = {} /\ Len(guessed) = gi - 1
        /\ pc = "guessInfo" =>
               GuessRasters = {Join(TmpDir, "a_guess_"
                                   \o ToString(guessed[Len(guessed)]) \o ".tif")}
        /\ GuessReturnedNone =>
               /\ guessed = GuessCandidates
               /\ TmpDir \notin fs
               /\ GuessRasters = {}
        /\ GuessReturnedPath =>
               /\ TmpDir \in fs
               /\ GuessRasters = {Join(TmpDir, "a_guess_"
                                   \o ToString(guessed[Len(guessed)]) \o ".tif")}

\* the third candidate is accepted after the first two were rejected
C31_Witness ==
    /\ fn = "process_sid"
    /\ pc = "done"
    /\ guessed = <<4269, 4326, 3857>>
    /\ Len(calls) = 5
    /\ ret = <<DirectJpg>>
    /\ GuessRasters = {Join(TmpDir, "a_guess_3857.tif")}

C31_WitnessNone ==
    /\ GuessReturnedNone
    /\ Len(guessed) = 13
    /\ Len(calls) = 14

(***************************************************************************)
(* One call of the dispatcher's per-file wrapper: the pipeline function    *)
(* runs to its end inside the wrapper's try, and the wrapper returns.      *)
(***************************************************************************)
\* the wrapper with no try/except: an exception of the pipeline leaves it
WrapperOutcomeUncaught(o) == o

\* lines 23-28, 33-37: `except Exception` prints; the wrapper returns None
\* whether the pipeline returned or raised
WrapperOutcome(o) == "returned"

\* lines 21-37: _process_sid / _process_tiff after the pipeline function ended
WrapperEnd ==
    /\ fn \in {"process_sid", "process_tiff"}
    /\ pc = "done"
    /\ oracle = <<>>
    /\ pc' = "wrapped"
    /\ outcome' = WrapperOutcome(outcome)
    /\ status' = [f \in {path} |->
                     IF outcome = "raised" THEN "raised"
                     ELSE IF ret = <<>> THEN "failed" ELSE "ok"]
    /\ UNCHANGED <<cfg, fn, oracle, run, first, wrote, plan, dirs, checked,
                   listed, copyFailed, ncopy, ev, path, epsg, box, valid,
                   fs, logs, nquar, calls, src, tmpFiles, size, tx, ty,
                   tiles, gi, guessed, ret, aux, todo, queue>>

\* the wrapper called on one path, with the target and the box check set
InitWrapper ==
    /\ InitPipelines
    /\ cfg.BBOX_CHECK
    /\ cfg.TARGET_EPSG = 4269

NextWrapper ==
    \/ NextPipelines
    \/ WrapperEnd

SpecWrapper == InitWrapper /\ [][NextWrapper]_vars

(***************************************************************************)
(* C32: process_sid on a path not ending (case-insensitively) in .sid, and *)
(* process_tiff on a path ending in neither .tif nor .tiff, raise before   *)
(* any engine call, log write, quarantine copy or output file: the file    *)
(* system is as it was, and the dispatcher's wrapper absorbs the error     *)
(* and returns.                                                            *)
(***************************************************************************)
WrongExtension ==
    \/ fn = "process_sid" /\ path \notin {"in/a.sid", "in/a.SID"}
    \/ fn = "process_tiff" /\ path \notin {"in/a.tif", "in/a.TIFF"}

InputsOnly ==
    /\ \A q \in fs : Dirname(q) = "in"
    /\ WithSuffix(path, ".tfw") \notin fs
    /\ fs \ {WithSuffix(path, ".tfwx")} = InputFiles(path, ev) \cup {Sibling}

C32_WrongExtensionRaisesUntouched ==
    WrongExtension =>
        /\ pc \in {"start", "done", "wrapped"}
        /\ calls = <<>>
        /\ logs = <<>>
        /\ nquar = 0
        /\ ncopy = <<>>
        /\ ret = <<>>
        /\ InputsOnly
        /\ pc = "done" => outcome = "raised"
        /\ pc = "wrapped" => outcome = "returned" /\ status[path] = "raised"

C32_Witness ==
    /\ fn = "process_sid"
    /\ path = "in/a.txt"
    /\ pc = "wrapped"
    /\ status[path] = "raised"
    /\ outcome = "returned"

C32_WitnessTiff ==
    /\ fn = "process_tiff"
    /\ path = "in/a.sid"
    /\ WithSuffix(path, ".tfwx") \in fs
    /\ pc = "wrapped"
    /\ status[path] = "raised"

=============================================================================
